---- MODULE Spec2Model ----
(***************************************************************************)
(* Model of pkg/sql/opt_catalog.go: the optimizer catalog (optCatalog),    *)
(* its per-session data source cache, the table wrapper builder            *)
(* (newOptTable) and the staleness / equality checks (optTable.isStale,    *)
(* optTable.Equals).                                                       *)
(*                                                                         *)
(* Pointers are modelled by identities: a descriptor pointer is a number   *)
(* indexing Desc, a wrapper pointer is an address of the heap, a           *)
(* statistics slice is the identity of its backing array plus its          *)
(* contents, a zone config pointer is a tag plus its contents.             *)
(***************************************************************************)
EXTENDS Integers, Sequences, FiniteSets, TLC

VARIABLES
    dataSources,  \* oc.dataSources: descriptor pointer -> wrapper address
    cfg,          \* oc.cfg: the SystemConfig taken at the last reset (or NoCfg)
    heap,         \* wrapper address -> built wrapper object (reachable ones)
    gossip,       \* the gossiped SystemConfig the process currently holds
    statsCache,   \* TableStatsCache: table ID -> current statistics slice
    leased,       \* number of descriptor instances of the churned view handed out
    avoidCachedDescriptors,  \* oc.planner.avoidCachedDescriptors
    ret,          \* outcome of the last catalog call
    prev,         \* data source returned by the successful call before ret (or NoAddr)
    probe         \* inputs and results of the pure-function specifications

vars ==
    <<dataSources, cfg, heap, gossip, statsCache, leased, avoidCachedDescriptors,
      ret, prev, probe>>

---------------------------------------------------------------------------
(* Bounds of the model.                                                    *)

\* statistics creation timestamps are 1..MaxCreatedAt
MaxCreatedAt == 2
\* a statistics slice holds at most MaxStats statistics
MaxStats == 2
\* backing arrays of equal contents are told apart by a tag 1..MaxInst
MaxInst == 2
\* num_replicas of a zone config is 0 (unset) .. MaxReplicas
MaxReplicas == 1
\* descriptor instances of the churned view beyond the reset threshold
MaxChurnOver == 2

\* reset() discards a cache with more than this many entries
CacheLimit == 100

---------------------------------------------------------------------------
(* Descriptors (tabledesc.Immutable).  A descriptor pointer is a number;   *)
(* Desc(p) is the immutable descriptor it points to.                       *)

StaticDescs == 1..9

\* types.T as far as the catalog reads it: Family() and UserDefined()
IntType == [Family |-> "int", UserDefined |-> FALSE]

DecimalType == [Family |-> "decimal", UserDefined |-> FALSE]

JSONType == [Family |-> "json", UserDefined |-> FALSE]

\* a user-defined enum with members x and y
EnumType == [Family |-> "enum", UserDefined |-> TRUE]

\* the array type of the enum, user-defined as well
EnumArrayType == [Family |-> "array", UserDefined |-> TRUE]

Col(id, name, udt) ==
    [ID |-> id, Name |-> name, udtVersion |-> udt, Nullable |-> FALSE,
     Type |-> IF udt # 0 THEN EnumType ELSE IntType, Hidden |-> FALSE]

\* a column of type typ
TypedCol(id, name, typ) ==
    [ID |-> id, Name |-> name, udtVersion |-> IF typ.UserDefined THEN 1 ELSE 0,
     Nullable |-> FALSE, Type |-> typ, Hidden |-> FALSE]

\* a column that admits NULL
NullableCol(id, name) ==
    [ID |-> id, Name |-> name, udtVersion |-> 0, Nullable |-> TRUE,
     Type |-> IntType, Hidden |-> FALSE]

\* descpb.IndexDescriptor: the declared key columns (ColumnIDs), the implicit
\* key columns (ExtraColumnIDs: the primary key columns the index does not
\* declare) and the stored columns (StoreColumnIDs)
IndexDesc(id, unique, inverted, cols, extra, store) ==
    [ID |-> id, Unique |-> unique, Inverted |-> inverted, ColumnIDs |-> cols,
     ExtraColumnIDs |-> extra, StoreColumnIDs |-> store]

\* the primary index on column 1
PrimaryOnFirst == IndexDesc(1, TRUE, FALSE, <<1>>, <<>>, <<>>)

TableDesc(id, version, name, cols, idxs) ==
    [ID |-> id, Version |-> version, Name |-> name, kind |-> "table",
     IsMaterializedView |-> FALSE, virtual |-> FALSE,
     Columns |-> cols, PrimaryIndex |-> PrimaryOnFirst, Indexes |-> idxs,
     OutboundFKs |-> <<>>, InboundFKs |-> <<>>,
     WriteOnly |-> <<>>, DeleteOnly |-> <<>>, ActiveChecks |-> <<>>]

ViewDesc(id, version, name, materialized, virtual) ==
    [ID |-> id, Version |-> version, Name |-> name, kind |-> "view",
     IsMaterializedView |-> materialized, virtual |-> virtual,
     Columns |-> <<Col(1, "a", 0)>>, PrimaryIndex |-> PrimaryOnFirst, Indexes |-> <<>>,
     OutboundFKs |-> <<>>, InboundFKs |-> <<>>,
     WriteOnly |-> <<>>, DeleteOnly |-> <<>>, ActiveChecks |-> <<>>]

\* descriptor pointers from FamilyBase on are the instances of table ti
FamilyBase == 1000

\* The descriptors of table ti (columns a, b, c; primary key a or (a, b); one
\* secondary index), one for every choice n of: the index unique or not,
\* column b nullable or not, the index inverted or not, its key b, (b, c) or
\* c, the primary key, the index storing the remaining column or nothing.
FamilyDesc(n) ==
    LET unique == n % 2 = 1
        bNull == (n \div 2) % 2 = 1
        inverted == (n \div 4) % 2 = 1
        key == CASE (n \div 8) % 3 = 0 -> <<2>>
                 [] (n \div 8) % 3 = 1 -> <<2, 3>>
                 [] OTHER -> <<3>>
        pk == IF (n \div 24) % 2 = 1 THEN <<1, 2>> ELSE <<1>>
        inKey(id) == \E i \in 1..Len(key) : key[i] = id
        notInKey(id) == ~inKey(id)
        free(id) == ~inKey(id) /\ \A i \in 1..Len(pk) : pk[i] # id
        store == IF (n \div 48) % 2 = 1 THEN SelectSeq(<<1, 2, 3>>, free) ELSE <<>>
    IN  [ID |-> 57, Version |-> 1, Name |-> "ti", kind |-> "table",
         IsMaterializedView |-> FALSE, virtual |-> FALSE,
         Columns |-> <<Col(1, "a", 0),
                       IF bNull THEN NullableCol(2, "b") ELSE Col(2, "b", 0),
                       Col(3, "c", 0)>>,
         PrimaryIndex |-> IndexDesc(1, TRUE, FALSE, pk, <<>>, <<>>),
         Indexes |-> <<IndexDesc(2, unique, inverted, key,
                                 SelectSeq(pk, notInKey), store)>>,
         OutboundFKs |-> <<>>, InboundFKs |-> <<>>,
     WriteOnly |-> <<>>, DeleteOnly |-> <<>>, ActiveChecks |-> <<>>]

\* the choices that give a valid descriptor: an inverted index is not
\* unique, a primary key column is not nullable
FamilyDescs ==
    {p \in FamilyBase..(FamilyBase + 95) :
        LET d == FamilyDesc(p - FamilyBase)
        IN  /\ d.Indexes[1].Inverted => ~d.Indexes[1].Unique
            /\ \A i \in 1..Len(d.PrimaryIndex.ColumnIDs) :
                  ~d.Columns[d.PrimaryIndex.ColumnIDs[i]].Nullable}

\* the instances of virtual table vti: with an index on b storing c, with
\* indexes on b and on c, with an index on (b, c), with an index on c and
\* one on (a, b), and without index
VirtualDescs == 501..505

VirtualDesc(p) ==
    [TableDesc(64, 1, "vti", <<Col(1, "a", 0), Col(3, "b", 0), Col(4, "c", 0)>>,
               CASE p = 501 -> <<IndexDesc(2, FALSE, FALSE, <<3>>, <<>>, <<4>>)>>
                 [] p = 502 -> <<IndexDesc(2, FALSE, FALSE, <<3>>, <<>>, <<>>),
                                 IndexDesc(3, FALSE, FALSE, <<4>>, <<>>, <<>>)>>
                 [] p = 503 -> <<IndexDesc(2, FALSE, FALSE, <<3, 4>>, <<>>, <<>>)>>
                 [] p = 504 -> <<IndexDesc(2, FALSE, FALSE, <<4>>, <<>>, <<>>),
                                 IndexDesc(3, FALSE, FALSE, <<1, 3>>, <<>>, <<>>)>>
                 [] OTHER -> <<>>)
        EXCEPT !.virtual = TRUE]

\* descpb.ForeignKeyConstraint
ForeignKey(name, origin, originCols, referenced, referencedCols) ==
    [Name |-> name, OriginTableID |-> origin, OriginColumnIDs |-> originCols,
     ReferencedTableID |-> referenced, ReferencedColumnIDs |-> referencedCols]

\* child (c, b) references parent (k1, k2)
ChildParentFK == ForeignKey("fk_parent", 62, <<3, 2>>, 63, <<3, 4>>)

\* descriptors 601 and 602: table child and the table parent it references
FKDescs == {601, 602}

\* The descriptors of table ts in every combination of: the type of column
\* b (integer, enum, array of the enum); a column named like the MVCC
\* timestamp column; the columns of pending mutations (none, one write-only
\* enum column, a write-only enum column and a delete-only integer column);
\* the secondary indexes (none, an inverted index on j, an inverted index on
\* k then an index on b then an inverted index on j); the active checks
\* (none, a validated one and an unvalidated one).
ShapeBase == 700

ShapeDescs == ShapeBase..(ShapeBase + 107)

ShapeDesc(n) ==
    LET typ == n % 3
        named == (n \div 3) % 2
        mutations == (n \div 6) % 3
        indexes == (n \div 18) % 3
        checks == (n \div 54) % 2
    IN  [TableDesc(66, 1, "ts",
                   <<Col(1, "a", 0),
                     TypedCol(2, "b", IF typ = 0 THEN IntType
                                      ELSE IF typ = 1 THEN EnumType ELSE EnumArrayType),
                     TypedCol(3, "j", JSONType),
                     TypedCol(4, "k", JSONType)>>
                   \o (IF named = 1
                       THEN <<TypedCol(5, "crdb_internal_mvcc_timestamp", DecimalType)>>
                       ELSE <<>>),
                   IF indexes = 0 THEN <<>>
                   ELSE IF indexes = 1
                   THEN <<IndexDesc(2, FALSE, TRUE, <<3>>, <<1>>, <<>>)>>
                   ELSE <<IndexDesc(2, FALSE, TRUE, <<4>>, <<1>>, <<>>),
                          IndexDesc(3, FALSE, FALSE, <<2>>, <<1>>, <<>>),
                          IndexDesc(4, FALSE, TRUE, <<3>>, <<1>>, <<>>)>>)
            EXCEPT !.WriteOnly = IF mutations = 0 THEN <<>>
                                 ELSE <<TypedCol(6, "w", EnumType)>>,
                   !.DeleteOnly = IF mutations = 2 THEN <<TypedCol(7, "x", IntType)>>
                                  ELSE <<>>,
                   !.ActiveChecks =
                       IF checks = 0 THEN <<>>
                       ELSE <<[Expr |-> <<"a", ">", "0">>, Validity |-> "Validated"],
                              [Expr |-> <<"j", "IS NOT NULL">>,
                               Validity |-> "Unvalidated"]>>]

\* 1, 2: two instances of table t at version 1 (column b has a user-defined type)
\* 3: table t at version 1 after the type of b was altered (type version 2)
\* 4: table t at version 2, column b dropped
\* 5: materialized view mv      6: view v      7: sequence s
\* 8: virtual table vt          9: virtual (system) view sysv
\* above StaticDescs: successive instances of view cv, one per schema change
Desc(p) ==
    CASE p \in {1, 2} ->
           TableDesc(51, 1, "t", <<Col(1, "a", 0), Col(2, "b", 1)>>,
                     <<IndexDesc(2, FALSE, FALSE, <<2>>, <<1>>, <<>>)>>)
      [] p = 3 ->
           TableDesc(51, 1, "t", <<Col(1, "a", 0), Col(2, "b", 2)>>,
                     <<IndexDesc(2, FALSE, FALSE, <<2>>, <<1>>, <<>>)>>)
      [] p = 4 ->
           TableDesc(51, 2, "t", <<Col(1, "a", 0)>>,
                     <<IndexDesc(2, TRUE, FALSE, <<1>>, <<>>, <<>>)>>)
      [] p = 5 -> ViewDesc(52, 1, "mv", TRUE, FALSE)
      [] p = 6 -> ViewDesc(53, 1, "v", FALSE, FALSE)
      [] p = 7 ->
           [ID |-> 54, Version |-> 1, Name |-> "s", kind |-> "sequence",
            IsMaterializedView |-> FALSE, virtual |-> FALSE,
            Columns |-> <<Col(1, "value", 0)>>, PrimaryIndex |-> PrimaryOnFirst,
            Indexes |-> <<>>, OutboundFKs |-> <<>>, InboundFKs |-> <<>>,
     WriteOnly |-> <<>>, DeleteOnly |-> <<>>, ActiveChecks |-> <<>>]
      [] p = 8 ->
           [TableDesc(60, 1, "vt", <<Col(1, "a", 0)>>, <<>>) EXCEPT !.virtual = TRUE]
      [] p = 9 -> ViewDesc(61, 1, "sysv", FALSE, TRUE)
      [] p \in VirtualDescs -> VirtualDesc(p)
      [] p = 601 ->
           [TableDesc(62, 1, "child", <<Col(1, "a", 0), Col(2, "b", 0), Col(3, "c", 0)>>,
                      <<>>)
               EXCEPT !.OutboundFKs = <<ChildParentFK>>]
      [] p = 602 ->
           [TableDesc(63, 1, "parent", <<Col(1, "id", 0), Col(3, "k1", 0), Col(4, "k2", 0)>>,
                      <<IndexDesc(2, TRUE, FALSE, <<3, 4>>, <<1>>, <<>>)>>)
               EXCEPT !.InboundFKs = <<ChildParentFK>>]
      [] p \in ShapeDescs -> ShapeDesc(p - ShapeBase)
      [] p >= FamilyBase -> FamilyDesc(p - FamilyBase)
      [] OTHER -> ViewDesc(70, 1, "cv", FALSE, FALSE)

IsView(p) == Desc(p).kind = "view"
IsSequence(p) == Desc(p).kind = "sequence"
IsTable(p) == ~IsView(p) /\ ~IsSequence(p)
MaterializedView(p) == Desc(p).IsMaterializedView
IsVirtualTable(p) == Desc(p).virtual

\* descriptors that dataSourceForDesc hands to dataSourceForTable
TableLike(p) == IsTable(p) \/ MaterializedView(p)

TableIDs == {51, 52}

IsUserDefined(col) == col.udtVersion # 0

\* tabledesc.Immutable.UserDefinedTypeColumns: the columns of user-defined type
UserDefinedTypeColumns(p) == SelectSeq(Desc(p).Columns, IsUserDefined)

\* tabledesc.Immutable.UserDefinedTypeColsHaveSameVersion: pairwise comparison
\* of the type versions of the columns of user-defined type (the two
\* descriptors are of the same table at the same version, so the lists have
\* the same length)
UserDefinedTypeColsHaveSameVersion(p, q) ==
    LET a == UserDefinedTypeColumns(p)
        b == UserDefinedTypeColumns(q)
    IN  \A i \in 1..Len(a) : i <= Len(b) => a[i].udtVersion = b[i].udtVersion

---------------------------------------------------------------------------
(* Statistics (stats.TableStatistic) and statistics slices.                *)

StatColumnIDs == {<<1>>, <<2>>}

TableStatistic == [CreatedAt : 1..MaxCreatedAt, ColumnIDs : StatColumnIDs]

StatLists == UNION {[1..n -> TableStatistic] : n \in 0..MaxStats}

\* A []*stats.TableStatistic slice.  Its backing array is identified by a tag
\* and its (immutable) contents; the nil slice has tag 0.
NilStats == [tag |-> 0, list |-> <<>>]
Snapshots == {NilStats} \cup {[tag |-> t, list |-> l] : t \in 1..MaxInst, l \in StatLists}

\* &s1[0] == &s2[0] for two non-empty slices
SameArray(s1, s2) == s1.tag = s2.tag /\ s1.list = s2.list

---------------------------------------------------------------------------
(* Zone configs (zonepb.ZoneConfig).  A *ZoneConfig is a tag (the identity *)
(* of the object) plus its contents.                                       *)

Subzone(idx, part, n) ==
    [IndexID |-> idx, PartitionName |-> part,
     Config |-> [NumReplicas |-> n, Subzones |-> <<>>]]

EmptyCfg == [NumReplicas |-> 0, Subzones |-> <<>>]

\* var emptyZoneConfig = &zonepb.ZoneConfig{}
emptyZoneConfig == [tag |-> <<"empty">>, cfg |-> EmptyCfg]

\* zonepb.ZoneConfig.Equal: deep equality of the contents
ZoneEqual(z1, z2) == z1.cfg = z2.cfg

\* zonepb.ZoneConfig.InheritFromParent: every unset field takes the parent's
\* value (the subzones are not inherited)
InheritFromParent(child, parent) ==
    [child EXCEPT !.NumReplicas = IF @ = 0 THEN parent.NumReplicas ELSE @]

---------------------------------------------------------------------------
(* The table wrapper (optTable) and its builder.                           *)

\* colinfo.MVCCTimestampColumnID and colinfo.MVCCTimestampColumnName
\* math.MaxUint32; 32-bit unsigned values are written as the signed number
\* with the same bits, so 0xFFFFFFFF is -1
MaxUint32 == -1
MVCCTimestampColumnID == MaxUint32
MVCCTimestampColumnName == "crdb_internal_mvcc_timestamp"

\* desc.DeletableColumns(): the public columns, then the columns of the
\* mutations being added or dropped, write-only ones before delete-only ones
DeletableColumns(d) == d.Columns \o d.WriteOnly \o d.DeleteOnly

\* desc.FindColumnByName(name) returns no error: a public column or a
\* column of a mutation has the name
HasColumnNamed(d, name) ==
    \E i \in 1..Len(DeletableColumns(d)) : DeletableColumns(d)[i].Name = name

\* the first loop of newOptTable: one cat.Column per deletable column of
\* the descriptor, of the kind its position gives it
OwnColumns(d) ==
    LET colDescs == DeletableColumns(d)
        numOrdinary == Len(d.Columns)
        numWritable == Len(d.Columns) + Len(d.WriteOnly)
    IN  [i \in 1..Len(colDescs) |->
            [ColID |-> colDescs[i].ID, ColName |-> colDescs[i].Name,
             Kind |-> IF i <= numOrdinary THEN "Ordinary"
                      ELSE IF i <= numWritable THEN "WriteOnly" ELSE "DeleteOnly",
             Nullable |-> colDescs[i].Nullable, Type |-> colDescs[i].Type,
             Hidden |-> colDescs[i].Hidden, InvertedSourceOrdinal |-> 0 - 1]]

\* the MVCC timestamp system column as newOptTable initialises it
MVCCTimestampColumn ==
    [ColID |-> MVCCTimestampColumnID, ColName |-> MVCCTimestampColumnName,
     Kind |-> "System", Nullable |-> TRUE, Type |-> DecimalType, Hidden |-> TRUE,
     InvertedSourceOrdinal |-> 0 - 1]

\* ot.columns with the system column added whatever the table's columns are
TableColumns_AlwaysSystem(d) == Append(OwnColumns(d), MVCCTimestampColumn)

\* ot.columns before the indexes are built: the descriptor's columns, then
\* the MVCC timestamp system column unless a column of that name exists
TableColumns(d) ==
    IF HasColumnNamed(d, MVCCTimestampColumnName)
    THEN OwnColumns(d)
    ELSE Append(OwnColumns(d), MVCCTimestampColumn)

\* ot.colMap with ordinals counted from 1
ColMap_OneBased(columns) ==
    [id \in {columns[i].ColID : i \in 1..Len(columns)} |->
        CHOOSE i \in 1..Len(columns) :
            /\ columns[i].ColID = id
            /\ \A j \in 1..Len(columns) : columns[j].ColID = id => j <= i]

\* ot.colMap: column ID -> ordinal (ordinals count from 0), over the columns
\* the table has when the map is made
ColMap(columns) ==
    [id \in {columns[i].ColID : i \in 1..Len(columns)} |->
        (CHOOSE i \in 1..Len(columns) :
            /\ columns[i].ColID = id
            /\ \A j \in 1..Len(columns) : columns[j].ColID = id => j <= i) - 1]

\* the index descriptors in optTable order: the primary index, then the
\* secondary indexes
IndexDescs(d) == <<d.PrimaryIndex>> \o d.Indexes

\* the zone of one index taking the subzones of partitions as well
RECURSIVE IndexZoneFrom_AnyPartition(_, _, _, _, _)
IndexZoneFrom_AnyPartition(addr, i, idxID, tblZone, j) ==
    IF j = 0
    THEN tblZone
    ELSE LET subzone == tblZone.cfg.Subzones[j]
         IN  IF subzone.IndexID = idxID
             THEN [tag |-> <<"copy", addr[1], addr[2], i>>,
                   cfg |-> InheritFromParent(subzone.Config, tblZone.cfg)]
             ELSE IndexZoneFrom_AnyPartition(addr, i, idxID, tblZone, j - 1)

\* the zone of one index: the last subzone of the table zone that applies to
\* the whole index (no partition name), inheriting from the table zone; the
\* table zone object itself when there is none
RECURSIVE IndexZoneFrom(_, _, _, _, _)
IndexZoneFrom(addr, i, idxID, tblZone, j) ==
    IF j = 0
    THEN tblZone
    ELSE LET subzone == tblZone.cfg.Subzones[j]
         IN  IF subzone.IndexID = idxID /\ subzone.PartitionName = ""
             THEN [tag |-> <<"copy", addr[1], addr[2], i>>,
                   cfg |-> InheritFromParent(subzone.Config, tblZone.cfg)]
             ELSE IndexZoneFrom(addr, i, idxID, tblZone, j - 1)

IndexZone(addr, i, idxID, tblZone) ==
    IndexZoneFrom(addr, i, idxID, tblZone, Len(tblZone.cfg.Subzones))

\* optTableStat.init keeping a statistic on a column that is not in the table
StatInit_AlwaysOk(colMap, stat) ==
    [ok |-> TRUE,
     stat |-> [CreatedAt |-> stat.CreatedAt,
               columnOrdinals |->
                   [i \in 1..Len(stat.ColumnIDs) |->
                       IF stat.ColumnIDs[i] \in DOMAIN colMap
                       THEN colMap[stat.ColumnIDs[i]] ELSE 0 - 1]]]

\* optTableStat.init(tab, stat): the column IDs of the statistic translated
\* to ordinals; ok is false when a column is not in the table
StatInit(colMap, stat) ==
    [ok |-> \A i \in 1..Len(stat.ColumnIDs) : stat.ColumnIDs[i] \in DOMAIN colMap,
     stat |-> [CreatedAt |-> stat.CreatedAt,
               columnOrdinals |->
                   [i \in 1..Len(stat.ColumnIDs) |->
                       IF stat.ColumnIDs[i] \in DOMAIN colMap
                       THEN colMap[stat.ColumnIDs[i]] ELSE 0 - 1]]]

\* the statistics loop of newOptTable: the statistics whose init is ok, in order
RECURSIVE RetainedStats(_, _, _)
RetainedStats(colMap, list, i) ==
    IF i > Len(list)
    THEN <<>>
    ELSE LET r == StatInit(colMap, list[i])
         IN  (IF r.ok THEN <<r.stat>> ELSE <<>>) \o RetainedStats(colMap, list, i + 1)

\* optTable.lookupColumnOrdinal as its callers use it: the ordinal, or the
\* zero value when the column is not in the map (the error is dropped)
lookupColumnOrdinal(colMap, colID) ==
    IF colID \in DOMAIN colMap THEN colMap[colID] ELSE 0

\* the ID of a column created by cat.Column.InitVirtual
VirtualColumnID == 0

\* the virtual columns newOptTable appends while it builds the indexes
\* idxDescs[1..n]: one for every inverted index, in index order
RECURSIVE InvertedKeyColumns(_, _, _, _)
InvertedKeyColumns(columns, colMap, idxDescs, n) ==
    IF n = 0
    THEN <<>>
    ELSE LET rest == InvertedKeyColumns(columns, colMap, idxDescs, n - 1)
             invertedSourceColOrdinal ==
                 lookupColumnOrdinal(colMap, idxDescs[n].ColumnIDs[1])
             src == columns[invertedSourceColOrdinal + 1]
         IN  IF idxDescs[n].Inverted
             THEN Append(rest, [ColID |-> VirtualColumnID,
                                ColName |-> <<src.ColName, "_inverted_key">>,
                                Kind |-> "Virtual", Nullable |-> FALSE,
                                Type |-> src.Type, Hidden |-> TRUE,
                                InvertedSourceOrdinal |-> invertedSourceColOrdinal])
             ELSE rest

\* the elements of a sequence
Range(seq) == {seq[i] : i \in 1..Len(seq)}

\* optIndex.init with the primary index's stored columns left empty
optIndexInit_NoPrimaryStored(columns, colMap, indexOrdinal, desc, zone, invertedVirtualColOrd) ==
    LET nullableKey == \E i \in 1..Len(desc.ColumnIDs) :
                          columns[lookupColumnOrdinal(colMap, desc.ColumnIDs[i]) + 1].Nullable
        declared == Len(desc.ColumnIDs)
        extra == Len(desc.ExtraColumnIDs)
    IN  [ID |-> desc.ID,
         desc |-> desc,
         zone |-> zone,
         indexOrdinal |-> indexOrdinal,
         invertedVirtualColOrd |-> invertedVirtualColOrd,
         storedCols |-> IF indexOrdinal = 0 THEN <<>> ELSE desc.StoreColumnIDs,
         numCols |-> IF indexOrdinal = 0
                     THEN Len(columns)
                     ELSE declared + extra + Len(desc.StoreColumnIDs),
         numLaxKeyCols |-> IF desc.Unique THEN declared ELSE declared + extra,
         numKeyCols |-> IF desc.Unique /\ ~nullableKey THEN declared ELSE declared + extra]

\* optIndex.init taking every unique index as a key without the extra columns
optIndexInit_UniqueIsKey(columns, colMap, indexOrdinal, desc, zone, invertedVirtualColOrd) ==
    LET keyIDs == Range(desc.ColumnIDs)
        isKey(col) == col.ColID \in keyIDs
        notKey(col) == ~isKey(col)
        colID(col) == col.ColID
        stored == SelectSeq(columns, notKey)
        declared == Len(desc.ColumnIDs)
        extra == Len(desc.ExtraColumnIDs)
    IN  [ID |-> desc.ID,
         desc |-> desc,
         zone |-> zone,
         indexOrdinal |-> indexOrdinal,
         invertedVirtualColOrd |-> invertedVirtualColOrd,
         storedCols |-> IF indexOrdinal = 0
                        THEN [i \in 1..Len(stored) |-> stored[i].ColID]
                        ELSE desc.StoreColumnIDs,
         numCols |-> IF indexOrdinal = 0
                     THEN Len(columns)
                     ELSE declared + extra + Len(desc.StoreColumnIDs),
         numLaxKeyCols |-> IF desc.Unique THEN declared ELSE declared + extra,
         numKeyCols |-> IF desc.Unique THEN declared ELSE declared + extra]

\* optIndex.init(tab, indexOrdinal, desc, zone, invertedVirtualColOrd);
\* columns and colMap are tab.columns and tab.colMap at the time of the call,
\* and the primary index is the one built at ordinal 0
optIndexInit(columns, colMap, indexOrdinal, desc, zone, invertedVirtualColOrd) ==
    LET keyIDs == Range(desc.ColumnIDs)
        notKey(col) == col.ColID \notin keyIDs
        stored == SelectSeq(columns, notKey)
        nullableKey == \E i \in 1..Len(desc.ColumnIDs) :
                          columns[lookupColumnOrdinal(colMap, desc.ColumnIDs[i]) + 1].Nullable
        declared == Len(desc.ColumnIDs)
        extra == Len(desc.ExtraColumnIDs)
    IN  [ID |-> desc.ID,
         desc |-> desc,
         zone |-> zone,
         indexOrdinal |-> indexOrdinal,
         invertedVirtualColOrd |-> invertedVirtualColOrd,
         storedCols |-> IF indexOrdinal = 0
                        THEN [i \in 1..Len(stored) |-> stored[i].ColID]
                        ELSE desc.StoreColumnIDs,
         numCols |-> IF indexOrdinal = 0
                     THEN Len(columns)
                     ELSE declared + extra + Len(desc.StoreColumnIDs),
         numLaxKeyCols |-> IF desc.Unique THEN declared ELSE declared + extra,
         numKeyCols |-> IF desc.Unique /\ ~nullableKey THEN declared ELSE declared + extra]

\* the optForeignKeyConstraint newOptTable appends for descriptor constraint fk
optForeignKeyConstraint(fk, originTable, referencedTable) ==
    [name |-> fk.Name,
     originTable |-> originTable, originColumns |-> fk.OriginColumnIDs,
     referencedTable |-> referencedTable, referencedColumns |-> fk.ReferencedColumnIDs]

\* the result of a call that may panic
Panicked == [panicked |-> TRUE, ord |-> 0 - 1]

\* OriginColumnOrdinal answering for any table
OriginColumnOrdinal_Unchecked(fk, originTable, i) ==
    [panicked |-> FALSE,
     ord |-> lookupColumnOrdinal(originTable.colMap, fk.originColumns[i + 1])]

\* optForeignKeyConstraint.OriginColumnOrdinal(originTable, i), i from 0
OriginColumnOrdinal(fk, originTable, i) ==
    IF Desc(originTable.desc).ID # fk.originTable
    THEN Panicked
    ELSE [panicked |-> FALSE,
          ord |-> lookupColumnOrdinal(originTable.colMap, fk.originColumns[i + 1])]

\* optForeignKeyConstraint.ReferencedColumnOrdinal(referencedTable, i), i from 0
ReferencedColumnOrdinal(fk, referencedTable, i) ==
    IF Desc(referencedTable.desc).ID # fk.referencedTable
    THEN Panicked
    ELSE [panicked |-> FALSE,
          ord |-> lookupColumnOrdinal(referencedTable.colMap, fk.referencedColumns[i + 1])]

\* optIndex.Column(i) looking every declared column up by its ID
optIndexColumn_Declared(tab, oi, i) ==
    LET ids == oi.desc.ColumnIDs \o oi.desc.ExtraColumnIDs \o oi.storedCols
    IN  lookupColumnOrdinal(tab.colMap, ids[i + 1])

\* optIndex.Column(i): the ordinal in tab of the i-th column of the index
\* (i counts from 0 and is below ColumnCount())
optIndexColumn(tab, oi, i) ==
    LET declared == Len(oi.desc.ColumnIDs)
        extra == Len(oi.desc.ExtraColumnIDs)
    IN  IF i < declared
        THEN IF i = 0 /\ oi.invertedVirtualColOrd # 0 - 1
             THEN oi.invertedVirtualColOrd
             ELSE lookupColumnOrdinal(tab.colMap, oi.desc.ColumnIDs[i + 1])
        ELSE IF i - declared < extra
        THEN lookupColumnOrdinal(tab.colMap, oi.desc.ExtraColumnIDs[i - declared + 1])
        ELSE lookupColumnOrdinal(tab.colMap, oi.storedCols[i - declared - extra + 1])

\* tree.MakeAllDEnumsInType: the members of an enum type
MakeAllDEnumsInType(typ) == IF typ.Family = "enum" THEN <<"x", "y">> ELSE <<>>

\* cat.Column.IsMutation
IsMutation(col) == col.Kind \in {"WriteOnly", "DeleteOnly"}

\* the checks synthesized with mutation columns not skipped
RECURSIVE SynthesizedChecks_WithMutations(_, _)
SynthesizedChecks_WithMutations(columns, i) ==
    IF i > Len(columns)
    THEN <<>>
    ELSE LET col == columns[i]
         IN  (IF col.Type.UserDefined /\ col.Type.Family = "enum"
              THEN <<[Constraint |-> <<col.ColName, "IN">> \o MakeAllDEnumsInType(col.Type),
                      Validated |-> TRUE]>>
              ELSE <<>>) \o SynthesizedChecks_WithMutations(columns, i + 1)

\* the checks newOptTable synthesizes for the columns i..Len(columns)
RECURSIVE SynthesizedChecks(_, _)
SynthesizedChecks(columns, i) ==
    IF i > Len(columns)
    THEN <<>>
    ELSE LET col == columns[i]
         IN  (IF ~IsMutation(col) /\ col.Type.UserDefined /\ col.Type.Family = "enum"
              THEN <<[Constraint |-> <<col.ColName, "IN">> \o MakeAllDEnumsInType(col.Type),
                      Validated |-> TRUE]>>
              ELSE <<>>) \o SynthesizedChecks(columns, i + 1)

\* ot.checkConstraints: the active checks of the descriptor, then the
\* synthesized ones
CheckConstraints(d, columns) ==
    [i \in 1..Len(d.ActiveChecks) |->
        [Constraint |-> d.ActiveChecks[i].Expr,
         Validated |-> d.ActiveChecks[i].Validity = "Validated"]]
    \o SynthesizedChecks(columns, 1)

\* the body of newOptTable: p is desc and d the descriptor it points to
newOptTableFrom(addr, p, d, stats, tblZone) ==
    LET columns == TableColumns(d)
        colMap == ColMap(columns)
        idxDescs == IndexDescs(d)
        columnsAt(i) == columns \o InvertedKeyColumns(columns, colMap, idxDescs, i)
    IN  [kind |-> "optTable",
         addr |-> addr,
         desc |-> p,
         rawStats |-> stats,
         zone |-> tblZone,
         columns |-> columnsAt(Len(idxDescs)),
         colMap |-> colMap,
         indexes |-> [i \in 1..Len(idxDescs) |->
                         optIndexInit(columnsAt(i), colMap, i - 1, idxDescs[i],
                                      IndexZone(addr, i, idxDescs[i].ID, tblZone),
                                      IF idxDescs[i].Inverted
                                      THEN Len(columnsAt(i)) - 1 ELSE 0 - 1)],
         outboundFKs |->
             [i \in 1..Len(d.OutboundFKs) |->
                 optForeignKeyConstraint(d.OutboundFKs[i], d.ID,
                                         d.OutboundFKs[i].ReferencedTableID)],
         inboundFKs |->
             [i \in 1..Len(d.InboundFKs) |->
                 optForeignKeyConstraint(d.InboundFKs[i],
                                         d.InboundFKs[i].OriginTableID, d.ID)],
         checkConstraints |-> CheckConstraints(d, columnsAt(Len(idxDescs))),
         stats |-> RetainedStats(colMap, stats.list, 1)]

\* newOptTable(desc, codec, stats, tblZone), allocated at address addr
newOptTable(addr, p, stats, tblZone) == newOptTableFrom(addr, p, Desc(p), stats, tblZone)

---------------------------------------------------------------------------
(* Staleness and equality.                                                 *)

\* isStale without the comparison of the zone configs
isStale_NoZone(ot, rawDesc, tableStats, zone) ==
    IF Len(tableStats.list) # Len(ot.rawStats.list)
    THEN TRUE
    ELSE IF Len(tableStats.list) > 0 /\ ~SameArray(tableStats, ot.rawStats)
    THEN TRUE
    ELSE IF ~UserDefinedTypeColsHaveSameVersion(ot.desc, rawDesc)
    THEN TRUE
    ELSE FALSE

\* isStale comparing the lengths of the statistics slices only
isStale_LengthOnly(ot, rawDesc, tableStats, zone) ==
    IF Len(tableStats.list) # Len(ot.rawStats.list)
    THEN TRUE
    ELSE IF ~ZoneEqual(zone, ot.zone)
    THEN TRUE
    ELSE IF ~UserDefinedTypeColsHaveSameVersion(ot.desc, rawDesc)
    THEN TRUE
    ELSE FALSE

\* isStale comparing the statistics fetched with the statistics retained
isStale_Retained(ot, rawDesc, tableStats, zone) ==
    IF Len(tableStats.list) # Len(ot.stats)
    THEN TRUE
    ELSE IF Len(tableStats.list) > 0 /\ ~SameArray(tableStats, ot.rawStats)
    THEN TRUE
    ELSE IF ~ZoneEqual(zone, ot.zone)
    THEN TRUE
    ELSE IF ~UserDefinedTypeColsHaveSameVersion(ot.desc, rawDesc)
    THEN TRUE
    ELSE FALSE

\* optTable.isStale(rawDesc, tableStats, zone)
isStale(ot, rawDesc, tableStats, zone) ==
    IF Len(tableStats.list) # Len(ot.rawStats.list)
    THEN TRUE
    ELSE IF Len(tableStats.list) > 0 /\ ~SameArray(tableStats, ot.rawStats)
    THEN TRUE
    ELSE IF ~ZoneEqual(zone, ot.zone)
    THEN TRUE
    ELSE IF ~UserDefinedTypeColsHaveSameVersion(ot.desc, rawDesc)
    THEN TRUE
    ELSE FALSE

\* optTableStat.equals
StatEquals(s, other) ==
    IF s.CreatedAt # other.CreatedAt
       \/ Len(s.columnOrdinals) # Len(other.columnOrdinals)
    THEN FALSE
    ELSE \A i \in 1..Len(s.columnOrdinals) : s.columnOrdinals[i] = other.columnOrdinals[i]

\* the index zone loop taking the zones of the first index pair as already
\* compared
RECURSIVE IndexZonesEqual_Unchecked(_, _, _, _, _)
IndexZonesEqual_Unchecked(ot, otherTable, i, prevLeftZone, prevRightZone) ==
    IF i > Len(ot.indexes)
    THEN TRUE
    ELSE LET leftZone == ot.indexes[i].zone
             rightZone == otherTable.indexes[i].zone
         IN  IF leftZone.tag = prevLeftZone /\ rightZone.tag = prevRightZone
             THEN IndexZonesEqual_Unchecked(ot, otherTable, i + 1, prevLeftZone,
                                            prevRightZone)
             ELSE IF i > 1 /\ ~ZoneEqual(leftZone, rightZone)
             THEN FALSE
             ELSE IndexZonesEqual_Unchecked(ot, otherTable, i + 1, leftZone.tag,
                                            rightZone.tag)

\* the index zone loop of optTable.Equals from index i on; prevLeft and
\* prevRight are the zone pointers of the last compared pair
RECURSIVE IndexZonesEqual(_, _, _, _, _)
IndexZonesEqual(ot, otherTable, i, prevLeftZone, prevRightZone) ==
    IF i > Len(ot.indexes)
    THEN TRUE
    ELSE LET leftZone == ot.indexes[i].zone
             rightZone == otherTable.indexes[i].zone
         IN  IF leftZone.tag = prevLeftZone /\ rightZone.tag = prevRightZone
             THEN IndexZonesEqual(ot, otherTable, i + 1, prevLeftZone, prevRightZone)
             ELSE IF ~ZoneEqual(leftZone, rightZone)
             THEN FALSE
             ELSE IndexZonesEqual(ot, otherTable, i + 1, leftZone.tag, rightZone.tag)

\* Equals comparing the statistics slices by backing array
Equals_ByStatsInstance(ot, other) ==
    IF other.kind # "optTable"
    THEN FALSE
    ELSE IF ot.addr = other.addr
    THEN TRUE
    ELSE IF Desc(ot.desc).ID # Desc(other.desc).ID
            \/ Desc(ot.desc).Version # Desc(other.desc).Version
    THEN FALSE
    ELSE IF ~SameArray(ot.rawStats, other.rawStats)
    THEN FALSE
    ELSE IF ~UserDefinedTypeColsHaveSameVersion(ot.desc, other.desc)
    THEN FALSE
    ELSE IndexZonesEqual(ot, other, 1, <<"nil">>, <<"nil">>)

\* Equals comparing the index zones by pointer
Equals_ZonePointer(ot, other) ==
    IF other.kind # "optTable"
    THEN FALSE
    ELSE IF ot.addr = other.addr
    THEN TRUE
    ELSE IF Desc(ot.desc).ID # Desc(other.desc).ID
            \/ Desc(ot.desc).Version # Desc(other.desc).Version
    THEN FALSE
    ELSE IF Len(ot.stats) # Len(other.stats)
    THEN FALSE
    ELSE IF \E i \in 1..Len(ot.stats) : ~StatEquals(ot.stats[i], other.stats[i])
    THEN FALSE
    ELSE IF ~UserDefinedTypeColsHaveSameVersion(ot.desc, other.desc)
    THEN FALSE
    ELSE \A i \in 1..Len(ot.indexes) : ot.indexes[i].zone.tag = other.indexes[i].zone.tag

\* Equals without the comparison of the user-defined type versions
Equals_NoTypeCheck(ot, other) ==
    IF other.kind # "optTable"
    THEN FALSE
    ELSE IF ot.addr = other.addr
    THEN TRUE
    ELSE IF Desc(ot.desc).ID # Desc(other.desc).ID
            \/ Desc(ot.desc).Version # Desc(other.desc).Version
    THEN FALSE
    ELSE IF Len(ot.stats) # Len(other.stats)
    THEN FALSE
    ELSE IF \E i \in 1..Len(ot.stats) : ~StatEquals(ot.stats[i], other.stats[i])
    THEN FALSE
    ELSE IndexZonesEqual(ot, other, 1, <<"nil">>, <<"nil">>)

\* optTable.Equals(other)
Equals(ot, other) ==
    IF other.kind # "optTable"
    THEN FALSE
    ELSE IF ot.addr = other.addr
    THEN TRUE
    ELSE IF Desc(ot.desc).ID # Desc(other.desc).ID
            \/ Desc(ot.desc).Version # Desc(other.desc).Version
    THEN FALSE
    ELSE IF Len(ot.stats) # Len(other.stats)
    THEN FALSE
    ELSE IF \E i \in 1..Len(ot.stats) : ~StatEquals(ot.stats[i], other.stats[i])
    THEN FALSE
    ELSE IF ~UserDefinedTypeColsHaveSameVersion(ot.desc, other.desc)
    THEN FALSE
    ELSE IndexZonesEqual(ot, other, 1, <<"nil">>, <<"nil">>)

---------------------------------------------------------------------------
(* The other wrappers.                                                     *)

NoObj == [kind |-> "none", addr |-> <<0, 0>>, desc |-> 0]

newOptView(addr, p) == [kind |-> "optView", addr |-> addr, desc |-> p]

newOptSequence(addr, p) == [kind |-> "optSequence", addr |-> addr, desc |-> p]

Catalogs == {"", "db1"}

\* the ID of the database a catalog name resolves to
DatabaseID(catalog) ==
    CASE catalog = "db1" -> 50
      [] catalog = "db2" -> 55
      [] OTHER -> 0

\* outcomes of planner.LookupSchema for a non-empty catalog name
LookupOutcomes == {"found", "notfound", "error"}

\* the stable ID of a virtual table with 0 for a database that is not found
VirtualTableID_NoSentinel(descID, name, lookup) ==
    [low |-> descID,
     high |-> IF name.Catalog = "" THEN 0
              ELSE IF lookup = "notfound" THEN 0
              ELSE DatabaseID(name.Catalog)]

\* the stable ID newOptVirtualTable calculates, a 64-bit value kept as its
\* two 32-bit halves: id := desc.ID; id |= MaxUint32 << 32 or id |= dbID << 32
VirtualTableID(descID, name, lookup) ==
    [low |-> descID,
     high |-> IF name.Catalog = "" THEN 0
              ELSE IF lookup = "notfound" THEN MaxUint32
              ELSE DatabaseID(name.Catalog)]

\* the dummy PK column of a virtual table; its stable ID is math.MaxInt64
VTablePKColumn ==
    [ColID |-> [low |-> MaxUint32, high |-> 2147483647],
     ColName |-> "crdb_internal_vtable_pk", Kind |-> "Ordinary", Nullable |-> FALSE]

\* ot.columns of a virtual table: the dummy PK column, then the descriptor's
VirtualColumns(d) ==
    <<VTablePKColumn>> \o
    [i \in 1..Len(d.Columns) |->
        [ColID |-> [low |-> d.Columns[i].ID, high |-> 0],
         ColName |-> d.Columns[i].Name, Kind |-> "Ordinary",
         Nullable |-> d.Columns[i].Nullable]]

\* ot.colMap of a virtual table: descpb.ColumnID(ColID()) -> ordinal, the
\* conversion keeping the low 32 bits of the stable ID
VirtualColMap(columns) ==
    [id \in {columns[i].ColID.low : i \in 1..Len(columns)} |->
        (CHOOSE i \in 1..Len(columns) :
            /\ columns[i].ColID.low = id
            /\ \A j \in 1..Len(columns) : columns[j].ColID.low = id => j <= i) - 1]

\* the index loop of newOptVirtualTable accepting every declared index
VirtualIndexes_NoRejection(d, numCols) ==
    [panicked |-> FALSE,
     indexes |->
         <<[isPrimary |-> TRUE, desc |-> IndexDesc(0, FALSE, FALSE, <<>>, <<>>, <<>>),
            numCols |-> numCols, indexOrdinal |-> 0]>> \o
         [i \in 1..Len(d.Indexes) |->
             [isPrimary |-> FALSE, desc |-> d.Indexes[i],
              numCols |-> numCols, indexOrdinal |-> i]]]

\* ot.indexes of a virtual table: the synthesized primary index, then the
\* declared indexes; the loop panics at an index of more than one column
VirtualIndexes(d, numCols) ==
    IF \E i \in 1..Len(d.Indexes) : Len(d.Indexes[i].ColumnIDs) > 1
    THEN [panicked |-> TRUE, indexes |-> <<>>]
    ELSE [panicked |-> FALSE,
          indexes |->
              <<[isPrimary |-> TRUE, desc |-> IndexDesc(0, FALSE, FALSE, <<>>, <<>>, <<>>),
                 numCols |-> numCols, indexOrdinal |-> 0]>> \o
              [i \in 1..Len(d.Indexes) |->
                  [isPrimary |-> FALSE, desc |-> d.Indexes[i],
                   numCols |-> numCols, indexOrdinal |-> i]]]

\* the body of newOptVirtualTable: p is desc and d the descriptor it points
\* to.  A panic is reported as panicked with its message in err.
newOptVirtualTableFrom(addr, p, d, name, lookup) ==
    LET columns == VirtualColumns(d)
        idx == VirtualIndexes(d, Len(columns))
    IN  IF name.Catalog # "" /\ lookup = "error"
        THEN [err |-> "lookup schema", panicked |-> FALSE, obj |-> NoObj]
        ELSE IF idx.panicked
        THEN [err |-> "virtual indexes with more than 1 col not supported",
              panicked |-> TRUE, obj |-> NoObj]
        ELSE [err |-> "", panicked |-> FALSE,
              obj |-> [kind |-> "optVirtualTable", addr |-> addr, desc |-> p,
                       name |-> name,
                       id |-> VirtualTableID(d.ID, name, lookup),
                       columns |-> columns,
                       colMap |-> VirtualColMap(columns),
                       indexes |-> idx.indexes]]

\* newOptVirtualTable(ctx, oc, desc, name), allocated at address addr; lookup
\* is the outcome of planner.LookupSchema, consulted when the name has a catalog
newOptVirtualTable(addr, p, name, lookup) ==
    newOptVirtualTableFrom(addr, p, Desc(p), name, lookup)

\* optVirtualTable.PostgresDescriptorID()
PostgresDescriptorID(ot) == Desc(ot.desc).ID

\* optVirtualIndex.KeyColumnCount()
KeyColumnCount(oi) == 2

\* optVirtualIndex.LaxKeyColumnCount()
LaxKeyColumnCount(oi) == 2

\* optVirtualIndex.Column(i), i from 0: the ordinal in tab of the column
optVirtualIndexColumn(tab, oi, i) ==
    LET length == Len(oi.desc.ColumnIDs)
    IN  IF oi.isPrimary
        THEN i
        ELSE IF i < length
        THEN lookupColumnOrdinal(tab.colMap, oi.desc.ColumnIDs[i + 1])
        ELSE IF i = length
        THEN 0
        ELSE lookupColumnOrdinal(tab.colMap, oi.desc.StoreColumnIDs[i - (length + 1) + 1])

---------------------------------------------------------------------------
(* The environment: the gossiped system config and the statistics cache.   *)

\* The SystemConfig instances the process may hold; 0 is "not yet available".
\* Instance 1 has no zone for the tables; 2 and 3 are different instances
\* with equal zones; 4 has a zone with a subzone for index 2 and one for
\* partition p1 of index 2; 5 has a zone with a subzone for partition p1 of
\* index 2 only.
SystemConfigs == 1..5
NoCfg == 0

SystemConfigZone(k) ==
    CASE k = 2 -> [NumReplicas |-> MaxReplicas, Subzones |-> <<>>]
      [] k = 3 -> [NumReplicas |-> MaxReplicas, Subzones |-> <<>>]
      [] k = 4 -> [NumReplicas |-> 0,
                   Subzones |-> <<Subzone(2, "", MaxReplicas), Subzone(2, "p1", 0)>>]
      [] k = 5 -> [NumReplicas |-> MaxReplicas, Subzones |-> <<Subzone(2, "p1", 0)>>]
      [] OTHER -> EmptyCfg

\* config.SystemConfig.GetZoneConfigForObject: nil when the object has no
\* zone, else the zone object this SystemConfig instance caches for the ID
HasZone(k) == k \in {2, 3, 4, 5}
GetZoneConfigForObject(k, id) == [tag |-> <<"zone", k, id>>, cfg |-> SystemConfigZone(k)]

Stat(t, cols) == [CreatedAt |-> t, ColumnIDs |-> cols]

---------------------------------------------------------------------------
(* The catalog (optCatalog).                                               *)

EmptyName == [Catalog |-> "", Object |-> ""]

\* The address of a wrapper is the descriptor it wraps and a number that
\* tells apart the reachable wrappers of that descriptor; NoAddr is nil.
NoAddr == <<0, 0>>

\* an address no reachable wrapper has
NewAddr(p) ==
    <<p, CHOOSE k \in 1..(Cardinality(DOMAIN heap) + 1) :
            /\ <<p, k>> \notin DOMAIN heap
            /\ \A j \in 1..(k - 1) : <<p, j>> \in DOMAIN heap>>

Cached(p) == p \in DOMAIN dataSources

\* getZoneConfig reading the system config gossip holds now
getZoneConfig_Gossip(p, zoneErr) ==
    IF gossip = NoCfg \/ IsVirtualTable(p)
    THEN [err |-> "", zone |-> emptyZoneConfig, asked |-> FALSE]
    ELSE IF zoneErr
    THEN [err |-> "zone config", zone |-> emptyZoneConfig, asked |-> TRUE]
    ELSE IF ~HasZone(gossip)
    THEN [err |-> "", zone |-> emptyZoneConfig, asked |-> TRUE]
    ELSE [err |-> "", zone |-> GetZoneConfigForObject(gossip, Desc(p).ID), asked |-> TRUE]

\* optCatalog.getZoneConfig(desc); zoneErr: GetZoneConfigForObject fails
getZoneConfig(p, zoneErr) ==
    IF cfg = NoCfg \/ IsVirtualTable(p)
    THEN [err |-> "", zone |-> emptyZoneConfig, asked |-> FALSE]
    ELSE IF zoneErr
    THEN [err |-> "zone config", zone |-> emptyZoneConfig, asked |-> TRUE]
    ELSE IF ~HasZone(cfg)
    THEN [err |-> "", zone |-> emptyZoneConfig, asked |-> TRUE]
    ELSE [err |-> "", zone |-> GetZoneConfigForObject(cfg, Desc(p).ID), asked |-> TRUE]

\* The outcome of dataSourceForDesc / dataSourceForTable:
\*   err          the error returned ("" for nil)
\*   ds           the address of the data source returned (NoAddr for nil)
\*   obj          the wrapper built by the call (NoObj when none was built)
\*   store        whether oc.dataSources[desc] was assigned ds
\*   tableStats   the statistics slice the call used (nil when not fetched)
\*   zone         the zone config the call used
\*   statsAsked, zoneAsked   whether the providers were consulted
Outcome(err, ds, obj, store, tableStats, zone, statsAsked, zoneAsked) ==
    [err |-> err, ds |-> ds, obj |-> obj, store |-> store,
     tableStats |-> tableStats, zone |-> zone,
     statsAsked |-> statsAsked, zoneAsked |-> zoneAsked]

\* dataSourceForTable returning the cached wrapper without the staleness check
dataSourceForTable_NoRevalidate(noTableStats, p, name, statsErr, zoneErr, lookup) ==
    IF IsVirtualTable(p)
    THEN LET r == newOptVirtualTable(NewAddr(p), p, name, lookup)
         IN  Outcome(r.err, r.obj.addr, r.obj, FALSE, NilStats, emptyZoneConfig,
                     FALSE, FALSE)
    ELSE LET tableStats == IF noTableStats \/ statsErr
                           THEN NilStats ELSE statsCache[Desc(p).ID]
             z == getZoneConfig(p, zoneErr)
         IN  IF z.err # ""
             THEN Outcome(z.err, NoAddr, NoObj, FALSE, tableStats, z.zone,
                          ~noTableStats, z.asked)
             ELSE IF Cached(p)
             THEN Outcome("", dataSources[p], NoObj, FALSE, tableStats, z.zone,
                          ~noTableStats, z.asked)
             ELSE Outcome("", NewAddr(p), newOptTable(NewAddr(p), p, tableStats, z.zone),
                          TRUE, tableStats, z.zone, ~noTableStats, z.asked)

\* dataSourceForTable keeping virtual tables in the cache like the others
dataSourceForTable_CacheVirtual(noTableStats, p, name, statsErr, zoneErr, lookup) ==
    IF IsVirtualTable(p)
    THEN IF Cached(p)
         THEN Outcome("", dataSources[p], NoObj, FALSE, NilStats, emptyZoneConfig,
                      FALSE, FALSE)
         ELSE LET r == newOptVirtualTable(NewAddr(p), p, name, lookup)
              IN  Outcome(r.err, r.obj.addr, r.obj, r.err = "", NilStats,
                          emptyZoneConfig, FALSE, FALSE)
    ELSE LET tableStats == IF noTableStats \/ statsErr
                           THEN NilStats ELSE statsCache[Desc(p).ID]
             z == getZoneConfig(p, zoneErr)
         IN  IF z.err # ""
             THEN Outcome(z.err, NoAddr, NoObj, FALSE, tableStats, z.zone,
                          ~noTableStats, z.asked)
             ELSE IF Cached(p) /\ ~isStale(heap[dataSources[p]], p, tableStats, z.zone)
             THEN Outcome("", dataSources[p], NoObj, FALSE, tableStats, z.zone,
                          ~noTableStats, z.asked)
             ELSE Outcome("", NewAddr(p), newOptTable(NewAddr(p), p, tableStats, z.zone),
                          TRUE, tableStats, z.zone, ~noTableStats, z.asked)

\* dataSourceForTable refreshing a stale wrapper in place
dataSourceForTable_InPlace(noTableStats, p, name, statsErr, zoneErr, lookup) ==
    IF IsVirtualTable(p)
    THEN LET r == newOptVirtualTable(NewAddr(p), p, name, lookup)
         IN  Outcome(r.err, r.obj.addr, r.obj, FALSE, NilStats, emptyZoneConfig,
                     FALSE, FALSE)
    ELSE LET tableStats == IF noTableStats \/ statsErr
                           THEN NilStats ELSE statsCache[Desc(p).ID]
             z == getZoneConfig(p, zoneErr)
         IN  IF z.err # ""
             THEN Outcome(z.err, NoAddr, NoObj, FALSE, tableStats, z.zone,
                          ~noTableStats, z.asked)
             ELSE IF Cached(p) /\ ~isStale(heap[dataSources[p]], p, tableStats, z.zone)
             THEN Outcome("", dataSources[p], NoObj, FALSE, tableStats, z.zone,
                          ~noTableStats, z.asked)
             ELSE IF Cached(p)
             THEN Outcome("", dataSources[p],
                          newOptTable(dataSources[p], p, tableStats, z.zone),
                          TRUE, tableStats, z.zone, ~noTableStats, z.asked)
             ELSE Outcome("", NewAddr(p), newOptTable(NewAddr(p), p, tableStats, z.zone),
                          TRUE, tableStats, z.zone, ~noTableStats, z.asked)

\* dataSourceForTable returning the error of the statistics cache
dataSourceForTable_StatsErrorFails(noTableStats, p, name, statsErr, zoneErr, lookup) ==
    IF IsVirtualTable(p)
    THEN LET r == newOptVirtualTable(NewAddr(p), p, name, lookup)
         IN  Outcome(r.err, r.obj.addr, r.obj, FALSE, NilStats, emptyZoneConfig,
                     FALSE, FALSE)
    ELSE IF ~noTableStats /\ statsErr
    THEN Outcome("statistics unavailable", NoAddr, NoObj, FALSE, NilStats,
                 emptyZoneConfig, TRUE, FALSE)
    ELSE LET tableStats == IF noTableStats THEN NilStats ELSE statsCache[Desc(p).ID]
             z == getZoneConfig(p, zoneErr)
         IN  IF z.err # ""
             THEN Outcome(z.err, NoAddr, NoObj, FALSE, tableStats, z.zone,
                          ~noTableStats, z.asked)
             ELSE IF Cached(p) /\ ~isStale(heap[dataSources[p]], p, tableStats, z.zone)
             THEN Outcome("", dataSources[p], NoObj, FALSE, tableStats, z.zone,
                          ~noTableStats, z.asked)
             ELSE Outcome("", NewAddr(p), newOptTable(NewAddr(p), p, tableStats, z.zone),
                          TRUE, tableStats, z.zone, ~noTableStats, z.asked)

\* dataSourceForTable caching a wrapper with the empty zone config when the
\* zone config cannot be read
dataSourceForTable_StoreOnError(noTableStats, p, name, statsErr, zoneErr, lookup) ==
    IF IsVirtualTable(p)
    THEN LET r == newOptVirtualTable(NewAddr(p), p, name, lookup)
         IN  Outcome(r.err, r.obj.addr, r.obj, FALSE, NilStats, emptyZoneConfig,
                     FALSE, FALSE)
    ELSE LET tableStats == IF noTableStats \/ statsErr
                           THEN NilStats ELSE statsCache[Desc(p).ID]
             z == getZoneConfig(p, zoneErr)
         IN  IF Cached(p) /\ z.err = ""
                /\ ~isStale(heap[dataSources[p]], p, tableStats, z.zone)
             THEN Outcome("", dataSources[p], NoObj, FALSE, tableStats, z.zone,
                          ~noTableStats, z.asked)
             ELSE Outcome(z.err, IF z.err = "" THEN NewAddr(p) ELSE NoAddr,
                          newOptTable(NewAddr(p), p, tableStats, z.zone),
                          TRUE, tableStats, z.zone, ~noTableStats, z.asked)

\* optCatalog.dataSourceForTable(ctx, flags, desc, name)
\*   noTableStats: flags.NoTableStats; statsErr: GetTableStats fails;
\*   zoneErr: the zone lookup fails; lookup: outcome of LookupSchema
dataSourceForTable(noTableStats, p, name, statsErr, zoneErr, lookup) ==
    IF IsVirtualTable(p)
    THEN LET r == newOptVirtualTable(NewAddr(p), p, name, lookup)
         IN  Outcome(r.err, r.obj.addr, r.obj, FALSE, NilStats, emptyZoneConfig,
                     FALSE, FALSE)
    ELSE LET tableStats == IF noTableStats \/ statsErr
                           THEN NilStats ELSE statsCache[Desc(p).ID]
             z == getZoneConfig(p, zoneErr)
         IN  IF z.err # ""
             THEN Outcome(z.err, NoAddr, NoObj, FALSE, tableStats, z.zone,
                          ~noTableStats, z.asked)
             ELSE IF Cached(p) /\ ~isStale(heap[dataSources[p]], p, tableStats, z.zone)
             THEN Outcome("", dataSources[p], NoObj, FALSE, tableStats, z.zone,
                          ~noTableStats, z.asked)
             ELSE Outcome("", NewAddr(p), newOptTable(NewAddr(p), p, tableStats, z.zone),
                          TRUE, tableStats, z.zone, ~noTableStats, z.asked)

\* dataSourceForDesc building a view or sequence wrapper on every call
dataSourceForDesc_NoCache(noTableStats, p, name, statsErr, zoneErr, lookup) ==
    IF IsTable(p) \/ MaterializedView(p)
    THEN dataSourceForTable(noTableStats, p, name, statsErr, zoneErr, lookup)
    ELSE IF IsView(p)
    THEN Outcome("", NewAddr(p), newOptView(NewAddr(p), p), TRUE, NilStats,
                 emptyZoneConfig, FALSE, FALSE)
    ELSE IF IsSequence(p)
    THEN Outcome("", NewAddr(p), newOptSequence(NewAddr(p), p), TRUE, NilStats,
                 emptyZoneConfig, FALSE, FALSE)
    ELSE Outcome("unexpected table descriptor", NoAddr, NoObj, FALSE, NilStats,
                 emptyZoneConfig, FALSE, FALSE)

\* dataSourceForDesc wrapping a sequence as a view
dataSourceForDesc_SequenceAsView(noTableStats, p, name, statsErr, zoneErr, lookup) ==
    IF IsTable(p) \/ MaterializedView(p)
    THEN dataSourceForTable(noTableStats, p, name, statsErr, zoneErr, lookup)
    ELSE IF Cached(p)
    THEN Outcome("", dataSources[p], NoObj, FALSE, NilStats, emptyZoneConfig,
                 FALSE, FALSE)
    ELSE Outcome("", NewAddr(p), newOptView(NewAddr(p), p), TRUE, NilStats,
                 emptyZoneConfig, FALSE, FALSE)

\* optCatalog.dataSourceForDesc(ctx, flags, desc, name)
dataSourceForDesc(noTableStats, p, name, statsErr, zoneErr, lookup) ==
    IF IsTable(p) \/ MaterializedView(p)
    THEN dataSourceForTable(noTableStats, p, name, statsErr, zoneErr, lookup)
    ELSE IF Cached(p)
    THEN Outcome("", dataSources[p], NoObj, FALSE, NilStats, emptyZoneConfig,
                 FALSE, FALSE)
    ELSE IF IsView(p)
    THEN Outcome("", NewAddr(p), newOptView(NewAddr(p), p), TRUE, NilStats,
                 emptyZoneConfig, FALSE, FALSE)
    ELSE IF IsSequence(p)
    THEN Outcome("", NewAddr(p), newOptSequence(NewAddr(p), p), TRUE, NilStats,
                 emptyZoneConfig, FALSE, FALSE)
    ELSE Outcome("unexpected table descriptor", NoAddr, NoObj, FALSE, NilStats,
                 emptyZoneConfig, FALSE, FALSE)

\* the call returned err ("" for nil) without reaching dataSourceForDesc
Failed(err) ==
    Outcome(err, NoAddr, NoObj, FALSE, NilStats, emptyZoneConfig, FALSE, FALSE)

\* the wrappers reachable from the cache and from the caller's last two results
Live(cache, a, b) == ({cache[d] : d \in DOMAIN cache} \cup {a, b}) \ {NoAddr}

\* an entry point setting the planner's flag without the deferred restore
AvoidDescriptorCaches_NoRestore(avoid) ==
    [during |-> IF avoid THEN TRUE ELSE avoidCachedDescriptors,
     after  |-> IF avoid THEN TRUE ELSE avoidCachedDescriptors]

\* if flags.AvoidDescriptorCaches { defer restore; avoidCachedDescriptors = true }
\*   during: the planner's flag while the body of the entry point runs;
\*   after: the flag once the entry point has returned
AvoidDescriptorCaches(avoid) ==
    [during |-> IF avoid THEN TRUE ELSE avoidCachedDescriptors,
     after  |-> avoidCachedDescriptors]

\* The state after a resolution call made with flags.AvoidDescriptorCaches =
\* avoid, with outcome r for descriptor p (0 when no descriptor was obtained):
\* the cache entry assigned, the result handed to the caller, who still holds
\* the result of the call before.
Return(op, p, r, avoid, isAdding) ==
    LET cache == IF r.store
                 THEN [d \in DOMAIN dataSources \cup {p} |->
                          IF d = p THEN r.ds ELSE dataSources[d]]
                 ELSE dataSources
        before == IF ret.ds # NoAddr THEN ret.ds ELSE prev
    IN  /\ dataSources' = cache
        /\ prev' = before
        /\ ret' = [op |-> op, desc |-> p, err |-> r.err, ds |-> r.ds,
                   tableStats |-> r.tableStats, zone |-> r.zone,
                   statsAsked |-> r.statsAsked, zoneAsked |-> r.zoneAsked,
                   isAdding |-> isAdding,
                   avoided |-> AvoidDescriptorCaches(avoid).during]
        /\ avoidCachedDescriptors' = AvoidDescriptorCaches(avoid).after
        /\ heap' = [a \in Live(cache, r.ds, before) |->
                       IF a = r.obj.addr THEN r.obj ELSE heap[a]]

\* reset discarding the cache once it holds CacheLimit entries
Reset_AtLimit ==
    /\ dataSources' = IF Cardinality(DOMAIN dataSources) >= CacheLimit
                      THEN <<>> ELSE dataSources
    /\ cfg' = gossip
    /\ heap' = [a \in Live(dataSources', ret.ds, prev) |-> heap[a]]
    /\ UNCHANGED <<gossip, statsCache, avoidCachedDescriptors, ret, prev>>

\* optCatalog.reset()
Reset ==
    /\ dataSources' = IF Cardinality(DOMAIN dataSources) > CacheLimit
                      THEN <<>> ELSE dataSources
    /\ cfg' = gossip
    /\ heap' = [a \in Live(dataSources', ret.ds, prev) |-> heap[a]]
    /\ UNCHANGED <<gossip, statsCache, avoidCachedDescriptors, ret, prev>>

\* ResolveDataSource checking the access to the schema after the builder
ResolveDataSource_CheckAfterBuild(avoid, noTableStats, p, catalog, resolveErr, denied, statsErr, zoneErr, lookup) ==
    /\ IF resolveErr # ""
       THEN Return("ResolveDataSource", 0, Failed(resolveErr), avoid, FALSE)
       ELSE LET r == dataSourceForDesc(noTableStats, p,
                                       [Catalog |-> catalog, Object |-> Desc(p).Name],
                                       statsErr, zoneErr, lookup)
            IN  IF denied # ""
                THEN Return("ResolveDataSource", p,
                            [r EXCEPT !.err = denied, !.ds = NoAddr], avoid, FALSE)
                ELSE Return("ResolveDataSource", p, r, avoid, FALSE)
    /\ UNCHANGED <<cfg, gossip, statsCache>>

\* optCatalog.ResolveDataSource(ctx, flags, name).
\*   p: the descriptor the resolver returns for the name; catalog: the catalog
\*   of the name as resolved into oc.tn; resolveErr: the error of the
\*   resolver; denied: the error of the schema access check ("" for nil);
\*   avoid: flags.AvoidDescriptorCaches
ResolveDataSource(avoid, noTableStats, p, catalog, resolveErr, denied, statsErr, zoneErr, lookup) ==
    /\ IF resolveErr # ""
       THEN Return("ResolveDataSource", 0, Failed(resolveErr), avoid, FALSE)
       ELSE IF denied # ""
       THEN Return("ResolveDataSource", p, Failed(denied), avoid, FALSE)
       ELSE Return("ResolveDataSource", p,
                   dataSourceForDesc(noTableStats, p,
                                     [Catalog |-> catalog, Object |-> Desc(p).Name],
                                     statsErr, zoneErr, lookup),
                   avoid, FALSE)
    /\ UNCHANGED <<cfg, gossip, statsCache>>

\* catalog.ErrDescriptorNotFound
ErrDescriptorNotFound == "not found"

\* catalog.HasAddingTableError(err): the table is being added
HasAddingTableError(err) == err = "adding"

\* the descriptor lookup returning the adding indication for every failure
ResolveDataSourceByID_AlwaysAdding(avoid, p, lookupErr, statsErr, zoneErr) ==
    /\ IF lookupErr # ""
       THEN Return("ResolveDataSourceByID", 0, Failed("undefined relation"), avoid, TRUE)
       ELSE Return("ResolveDataSourceByID", p,
                   dataSourceForDesc(FALSE, p, EmptyName, statsErr, zoneErr, "found"),
                   avoid, FALSE)
    /\ UNCHANGED <<cfg, gossip, statsCache>>

\* optCatalog.ResolveDataSourceByID(ctx, flags, dataSourceID).
\*   lookupErr: the failure of planner.LookupTableByID ("" for none); p: the
\*   descriptor it returns
ResolveDataSourceByID(avoid, p, lookupErr, statsErr, zoneErr) ==
    /\ LET isAdding == HasAddingTableError(lookupErr)
       IN  IF lookupErr # ""
           THEN IF lookupErr = ErrDescriptorNotFound \/ isAdding
                THEN Return("ResolveDataSourceByID", 0, Failed("undefined relation"),
                            avoid, isAdding)
                ELSE Return("ResolveDataSourceByID", 0, Failed(lookupErr), avoid, FALSE)
           ELSE Return("ResolveDataSourceByID", p,
                       dataSourceForDesc(FALSE, p, EmptyName, statsErr, zoneErr, "found"),
                       avoid, FALSE)
    /\ UNCHANGED <<cfg, gossip, statsCache>>

\* optCatalog.ResolveSchema(ctx, flags, name).
\*   resolveErr: the error of ObjectNamePrefix.Resolve ("" for nil); found: its
\*   result; explicit: name.ExplicitSchema or name.ExplicitCatalog
ResolveSchema(avoid, resolveErr, found, explicit) ==
    /\ IF resolveErr # ""
       THEN Return("ResolveSchema", 0, Failed(resolveErr), avoid, FALSE)
       ELSE IF ~found
       THEN IF ~explicit
            THEN Return("ResolveSchema", 0, Failed("no database specified"), avoid, FALSE)
            ELSE Return("ResolveSchema", 0,
                        Failed("target database or schema does not exist"), avoid, FALSE)
       ELSE Return("ResolveSchema", 0, Failed(""), avoid, FALSE)
    /\ UNCHANGED <<cfg, gossip, statsCache>>

\* optCatalog.ResolveTypeByOID(ctx, oid): the planner's resolver is called
\* with the planner as it is; err is its error ("" for nil)
ResolveTypeByOID(err) ==
    /\ Return("ResolveTypeByOID", 0, Failed(err), FALSE, FALSE)
    /\ UNCHANGED <<cfg, gossip, statsCache>>

\* the planner's flag is set or cleared outside the catalog
SetAvoidCachedDescriptors(b) ==
    /\ avoidCachedDescriptors # b
    /\ avoidCachedDescriptors' = b
    /\ UNCHANGED <<dataSources, cfg, heap, gossip, statsCache, ret, prev>>

\* the statistics cache replaces the statistics of a table
RefreshStats(id, s) ==
    /\ statsCache[id] # s
    /\ statsCache' = [statsCache EXCEPT ![id] = s]
    /\ UNCHANGED <<dataSources, cfg, heap, gossip, avoidCachedDescriptors, ret, prev>>

\* gossip delivers another SystemConfig
Gossip(k) ==
    /\ gossip # k
    /\ gossip' = k
    /\ UNCHANGED <<dataSources, cfg, heap, statsCache, avoidCachedDescriptors, ret, prev>>

NoProbe == [phase |-> "none"]

NoRet ==
    [op |-> "init", desc |-> 0, err |-> "", ds |-> NoAddr,
     tableStats |-> NilStats, zone |-> emptyZoneConfig,
     statsAsked |-> FALSE, zoneAsked |-> FALSE, isAdding |-> FALSE, avoided |-> FALSE]

\* optCatalog.init(planner): an empty cache, no system config yet
Init ==
    /\ dataSources = <<>>
    /\ cfg = NoCfg
    /\ heap = <<>>
    /\ gossip = NoCfg
    /\ statsCache = [id \in TableIDs |-> NilStats]
    /\ leased = 0
    /\ avoidCachedDescriptors = FALSE
    /\ ret = NoRet
    /\ prev = NoAddr
    /\ probe = NoProbe

\* One step of a session that resolves the descriptors of descs while the
\* statistics of the tables of ids are replaced by slices of snaps and gossip
\* delivers the system configs of cfgs.  The inputs a call does not read are
\* held at one value.
Session(descs, ids, snaps, cfgs) ==
    \/ Reset /\ UNCHANGED <<leased, probe>>
    \/ \E p \in descs, resolveErr \in {"", "undefined relation"},
          denied \in {"", "permission denied"} :
          /\ resolveErr # "" \/ denied # ""
          /\ resolveErr # "" => denied = ""
          /\ ResolveDataSource(FALSE, FALSE, p, "db1", resolveErr, denied,
                               FALSE, FALSE, "found")
          /\ UNCHANGED <<leased, probe>>
    \/ \E p \in descs, noTableStats \in BOOLEAN, catalog \in Catalogs,
          statsErr \in BOOLEAN, zoneErr \in BOOLEAN, lookup \in LookupOutcomes :
          /\ (IsVirtualTable(p) /\ IsTable(p)) \/ catalog = "db1"
          /\ lookup # "found" => (IsVirtualTable(p) /\ IsTable(p) /\ catalog # "")
          /\ (noTableStats \/ statsErr \/ zoneErr) => (TableLike(p) /\ ~IsVirtualTable(p))
          /\ statsErr => ~noTableStats
          /\ zoneErr => cfg # NoCfg
          /\ ResolveDataSource(FALSE, noTableStats, p, catalog, "", "",
                               statsErr, zoneErr, lookup)
          /\ UNCHANGED <<leased, probe>>
    \/ \E lookupErr \in {"not found", "adding", "other"} :
          /\ ResolveDataSourceByID(FALSE, 0, lookupErr, FALSE, FALSE)
          /\ UNCHANGED <<leased, probe>>
    \/ \E p \in descs, statsErr \in BOOLEAN, zoneErr \in BOOLEAN :
          /\ ~IsVirtualTable(p)
          /\ (statsErr \/ zoneErr) => TableLike(p)
          /\ zoneErr => cfg # NoCfg
          /\ ResolveDataSourceByID(FALSE, p, "", statsErr, zoneErr)
          /\ UNCHANGED <<leased, probe>>
    \/ \E id \in ids, s \in snaps : RefreshStats(id, s) /\ UNCHANGED <<leased, probe>>
    \/ \E k \in cfgs : Gossip(k) /\ UNCHANGED <<leased, probe>>

\* the statistics slices the statistics cache holds in the session: nil and
\* two arrays of equal contents
SessionSnapshots ==
    {NilStats,
     [tag |-> 1, list |-> <<Stat(1, <<1>>)>>],
     [tag |-> MaxInst, list |-> <<Stat(1, <<1>>)>>]}

\* A session on table t while its statistics and zone change.
Next == Session({1}, {51}, SessionSnapshots, {NoCfg, 2, 3})

Spec == Init /\ [][Next]_vars

\* A session on the other kinds of data source: a view, a sequence, a
\* virtual table and a virtual view.
NextObjects ==
    Session({6, 7, 8, 9}, {51}, {NilStats, [tag |-> 1, list |-> <<Stat(1, <<1>>)>>]},
            {NoCfg, 2})

SpecObjects == Init /\ [][NextObjects]_vars

---------------------------------------------------------------------------
(* A long-lived session with a lot of DDL: view cv is altered again and    *)
(* again, and every resolution of its name returns the latest descriptor   *)
(* instance or, after one more change, a new one.  probe holds the cache   *)
(* as it was before the last call.                                         *)

\* the n-th descriptor instance of view cv
Churn(n) == Cardinality(StaticDescs) + n

Resolved(p) ==
    /\ ResolveDataSource(FALSE, FALSE, p, "db1", "", "", FALSE, FALSE, "found")
    /\ probe' = [phase |-> "resolve", before |-> dataSources]

ResolveNew ==
    /\ leased < CacheLimit + MaxChurnOver
    /\ leased' = leased + 1
    /\ Resolved(Churn(leased + 1))

ResolveLatest ==
    /\ leased > 0
    /\ UNCHANGED leased
    /\ Resolved(Churn(leased))

ResolveSequence ==
    /\ UNCHANGED leased
    /\ Resolved(7)

NewQuery ==
    /\ Reset
    /\ probe' = [phase |-> "reset", before |-> dataSources]
    /\ UNCHANGED leased

NextReset ==
    \/ ResolveNew
    \/ ResolveLatest
    \/ ResolveSequence
    \/ NewQuery
    \/ \E k \in {NoCfg, 2} : Gossip(k) /\ UNCHANGED <<leased, probe>>

SpecReset == Init /\ [][NextReset]_vars

---------------------------------------------------------------------------
(* newOptTable, isStale and Equals as functions of their arguments: probe  *)
(* holds the arguments, then the wrappers built and the result.            *)

\* the statistics slices tried: nil, the empty slices, the one-statistic
\* slices of the first array, a second array equal to one of them, and a
\* slice of MaxStats statistics
PureSnapshots ==
    {s \in Snapshots :
        \/ Len(s.list) = 0
        \/ Len(s.list) = 1 /\ (s.tag = 1 \/ s.list = <<Stat(1, <<1>>)>>)
        \/ s = [tag |-> 1, list |-> [i \in 1..MaxStats |-> Stat(i, <<1>>)]]}

\* the zone configs tried: the empty one and those of the system configs
PureZones ==
    {emptyZoneConfig} \cup {GetZoneConfigForObject(k, 51) : k \in {k \in SystemConfigs : HasZone(k)}}

PureInputs ==
    [phase : {"input"}, p : {1, 4}, q : 1..4, s1 : PureSnapshots, s2 : PureSnapshots,
     z1 : PureZones, z2 : PureZones]

InitPure ==
    /\ dataSources = <<>>
    /\ cfg = NoCfg
    /\ heap = <<>>
    /\ gossip = NoCfg
    /\ statsCache = [id \in TableIDs |-> NilStats]
    /\ leased = 0
    /\ avoidCachedDescriptors = FALSE
    /\ ret = NoRet
    /\ prev = NoAddr
    /\ probe \in PureInputs

\* ot := newOptTable(p, s1, z1); ot.isStale(q, s2, z2), for descriptors p and
\* q of one table at one version
CallIsStale ==
    /\ probe.phase = "input"
    /\ Desc(probe.p).ID = Desc(probe.q).ID
    /\ Desc(probe.p).Version = Desc(probe.q).Version
    /\ LET ot == newOptTable(<<probe.p, 1>>, probe.p, probe.s1, probe.z1)
       IN  probe' = [phase |-> "isStale", ot |-> ot, rawDesc |-> probe.q,
                     tableStats |-> probe.s2, zone |-> probe.z2,
                     result |-> isStale(ot, probe.q, probe.s2, probe.z2)]
    /\ UNCHANGED <<dataSources, cfg, heap, gossip, statsCache, leased,
                   avoidCachedDescriptors, ret, prev>>

\* a := newOptTable(p, s1, z1); b := newOptTable(q, s2, z2) or b := a;
\* a.Equals(b)
CallEquals ==
    /\ probe.phase = "input"
    /\ \E same \in BOOLEAN :
          LET a == newOptTable(<<probe.p, 1>>, probe.p, probe.s1, probe.z1)
              b == IF same THEN a
                   ELSE newOptTable(<<probe.q, 2>>, probe.q, probe.s2, probe.z2)
          IN  probe' = [phase |-> "Equals", a |-> a, b |-> b, result |-> Equals(a, b)]
    /\ UNCHANGED <<dataSources, cfg, heap, gossip, statsCache, leased,
                   avoidCachedDescriptors, ret, prev>>

NextPure == CallIsStale \/ CallEquals

SpecPure == InitPure /\ [][NextPure]_vars

---------------------------------------------------------------------------
(* The builders as functions of their arguments: probe holds the           *)
(* arguments, then the object built.                                       *)

\* the statistics tried on table ti: on column a, on a column dropped since,
\* on (c, a), and on a and the dropped column
BuildStats == {Stat(1, <<1>>), Stat(MaxCreatedAt, <<4>>), Stat(1, <<3, 1>>), Stat(MaxCreatedAt, <<1, 4>>)}

BuildSnapshots ==
    {NilStats} \cup {[tag |-> 1, list |-> l] :
                       l \in UNION {[1..n -> BuildStats] : n \in 0..MaxStats}}

BuildInputs == [phase : {"input"}, p : FamilyDescs \cup ShapeDescs, s : BuildSnapshots]

\* the catalogs a virtual table is named with: none, two databases and a
\* database that does not exist
VirtualCatalogs == {"", "db1", "db2", "nodb"}

\* the outcome of planner.LookupSchema for a catalog
LookupSchema(catalog) == IF catalog \in {"db1", "db2"} THEN "found" ELSE "notfound"

VirtualInputs ==
    [phase : {"virtual"}, p : VirtualDescs \cup {8}, n1 : VirtualCatalogs,
     n2 : VirtualCatalogs]

\* a constraint of descriptor p asked for the ordinals of its i-th columns
\* in the table built from descriptor q
FKInputs == [phase : {"fk"}, p : FKDescs, q : FKDescs \cup {1}, i : 0..1]

InitBuild ==
    /\ dataSources = <<>>
    /\ cfg = NoCfg
    /\ heap = <<>>
    /\ gossip = NoCfg
    /\ statsCache = [id \in TableIDs |-> NilStats]
    /\ leased = 0
    /\ avoidCachedDescriptors = FALSE
    /\ ret = NoRet
    /\ prev = NoAddr
    /\ probe \in BuildInputs \cup VirtualInputs \cup FKInputs

\* ot, err := newOptTable(p, s, emptyZoneConfig)
BuildTable ==
    /\ probe.phase = "input"
    /\ probe' = [phase |-> "newOptTable", p |-> probe.p, s |-> probe.s,
                 ot |-> newOptTable(<<probe.p, 1>>, probe.p, probe.s, emptyZoneConfig)]
    /\ UNCHANGED <<dataSources, cfg, heap, gossip, statsCache, leased,
                   avoidCachedDescriptors, ret, prev>>

\* a, err := newOptVirtualTable(p, n1.vt); b, err := newOptVirtualTable(p, n2.vt)
BuildVirtualTable ==
    /\ probe.phase = "virtual"
    /\ probe' = [phase |-> "newOptVirtualTable", p |-> probe.p,
                 n1 |-> probe.n1, n2 |-> probe.n2,
                 a |-> newOptVirtualTable(<<probe.p, 1>>, probe.p,
                                          [Catalog |-> probe.n1,
                                           Object |-> Desc(probe.p).Name],
                                          LookupSchema(probe.n1)),
                 b |-> newOptVirtualTable(<<probe.p, 2>>, probe.p,
                                          [Catalog |-> probe.n2,
                                           Object |-> Desc(probe.p).Name],
                                          LookupSchema(probe.n2))]
    /\ UNCHANGED <<dataSources, cfg, heap, gossip, statsCache, leased,
                   avoidCachedDescriptors, ret, prev>>

\* ot := newOptTable(p); fk := its outbound or inbound constraint;
\* tab := newOptTable(q); fk.OriginColumnOrdinal(tab, i);
\* fk.ReferencedColumnOrdinal(tab, i)
CallForeignKey ==
    /\ probe.phase = "fk"
    /\ LET ot == newOptTable(<<probe.p, 1>>, probe.p, NilStats, emptyZoneConfig)
           fk == IF Len(ot.outboundFKs) > 0 THEN ot.outboundFKs[1] ELSE ot.inboundFKs[1]
           tab == newOptTable(<<probe.q, 2>>, probe.q, NilStats, emptyZoneConfig)
       IN  probe' = [phase |-> "ColumnOrdinal", p |-> probe.p, q |-> probe.q,
                     i |-> probe.i, fk |-> fk, tab |-> tab,
                     origin |-> OriginColumnOrdinal(fk, tab, probe.i),
                     referenced |-> ReferencedColumnOrdinal(fk, tab, probe.i)]
    /\ UNCHANGED <<dataSources, cfg, heap, gossip, statsCache, leased,
                   avoidCachedDescriptors, ret, prev>>

NextBuild == BuildTable \/ BuildVirtualTable \/ CallForeignKey

SpecBuild == InitBuild /\ [][NextBuild]_vars

---------------------------------------------------------------------------
(* The four resolution entry points called on table t with every flag and  *)
(* every failure of the planner, the resolver, the access check and the    *)
(* providers.  probe holds the arguments of the last call, the planner's   *)
(* flag and the cache as they were before it, until the planner's flag is  *)
(* next changed from outside.                                              *)

\* the arguments of a call: avoid is the AvoidDescriptorCaches flag the
\* caller resolves with, err the error of the first lookup of the call
Call(avoid, err, denied, statsErr, zoneErr) ==
    probe' = [phase |-> "call", avoid |-> avoid, err |-> err, denied |-> denied,
              statsErr |-> statsErr, zoneErr |-> zoneErr,
              flagBefore |-> avoidCachedDescriptors, before |-> dataSources,
              wrappers |-> [d \in DOMAIN dataSources |-> heap[dataSources[d]]]]

ResolveErrors == {"", "undefined relation", "internal error"}

LookupErrors == {"", ErrDescriptorNotFound, "adding", "internal error", "context canceled"}

NextFacade ==
    \/ Reset /\ UNCHANGED <<leased, probe>>
    \/ \E avoid \in BOOLEAN, resolveErr \in ResolveErrors, found \in BOOLEAN,
          explicit \in BOOLEAN :
          /\ resolveErr # "" => (found /\ explicit)
          /\ found => explicit
          /\ ResolveSchema(avoid, resolveErr, found, explicit)
          /\ Call(avoid, resolveErr, "", FALSE, FALSE)
          /\ UNCHANGED leased
    \/ \E avoid \in BOOLEAN, resolveErr \in ResolveErrors,
          denied \in {"", "permission denied"}, statsErr \in BOOLEAN, zoneErr \in BOOLEAN :
          /\ (resolveErr # "" \/ denied # "") => (~statsErr /\ ~zoneErr)
          /\ zoneErr => cfg # NoCfg
          /\ ResolveDataSource(avoid, FALSE, 1, "db1", resolveErr, denied,
                               statsErr, zoneErr, "found")
          /\ Call(avoid, resolveErr, denied, statsErr, zoneErr)
          /\ UNCHANGED leased
    \/ \E avoid \in BOOLEAN, lookupErr \in LookupErrors, statsErr \in BOOLEAN,
          zoneErr \in BOOLEAN :
          /\ lookupErr # "" => (~statsErr /\ ~zoneErr)
          /\ zoneErr => cfg # NoCfg
          /\ ResolveDataSourceByID(avoid, 1, lookupErr, statsErr, zoneErr)
          /\ Call(avoid, lookupErr, "", statsErr, zoneErr)
          /\ UNCHANGED leased
    \/ \E avoid \in BOOLEAN, err \in {"", "type does not exist"} :
          /\ ResolveTypeByOID(err)
          /\ Call(avoid, err, "", FALSE, FALSE)
          /\ UNCHANGED leased
    \/ \E b \in BOOLEAN :
          /\ SetAvoidCachedDescriptors(b)
          /\ probe' = NoProbe
          /\ UNCHANGED leased
    \/ \E s \in {NilStats, [tag |-> 1, list |-> <<Stat(1, <<1>>)>>]} :
          RefreshStats(51, s) /\ UNCHANGED <<leased, probe>>
    \/ \E k \in {NoCfg, 2} : Gossip(k) /\ UNCHANGED <<leased, probe>>

SpecFacade == Init /\ [][NextFacade]_vars

\* A session on a table, a materialized view, a view and a sequence,
\* resolved by name, while the statistics of the table and the system config
\* change.
CacheDescs == {1, 5, 6, 7}

NextCache ==
    \/ Reset /\ UNCHANGED <<leased, probe>>
    \/ \E p \in CacheDescs :
          /\ ResolveDataSource(FALSE, FALSE, p, "db1", "", "", FALSE, FALSE, "found")
          /\ UNCHANGED <<leased, probe>>
    \/ \E s \in {NilStats, [tag |-> 1, list |-> <<Stat(1, <<1>>)>>]} :
          RefreshStats(51, s) /\ UNCHANGED <<leased, probe>>
    \/ \E k \in {NoCfg, 2} : Gossip(k) /\ UNCHANGED <<leased, probe>>

SpecCache == Init /\ [][NextCache]_vars

---------------------------------------------------------------------------
(* A session that looks tables up while gossip delivers system configs:    *)
(* probe holds, for every table ID, the zone config of its first           *)
(* successful lookup since the last reset.                                 *)

\* table t and the virtual table vt
ZoneDescs == {1, 8}

InitZone ==
    /\ dataSources = <<>>
    /\ cfg = NoCfg
    /\ heap = <<>>
    /\ gossip = NoCfg
    /\ statsCache = [id \in TableIDs |-> NilStats]
    /\ leased = 0
    /\ avoidCachedDescriptors = FALSE
    /\ ret = NoRet
    /\ prev = NoAddr
    /\ probe = [phase |-> "reset", zoneErr |-> FALSE, first |-> <<>>]

\* the start of a query
ResetZone ==
    /\ Reset
    /\ probe' = [phase |-> "reset", zoneErr |-> FALSE, first |-> <<>>]
    /\ UNCHANGED leased

\* a lookup by name of descriptor p
LookupZone(p, zoneErr) ==
    /\ zoneErr => (cfg # NoCfg /\ ~IsVirtualTable(p))
    /\ ResolveDataSource(FALSE, FALSE, p, "db1", "", "", FALSE, zoneErr, "found")
    /\ probe' = [phase |-> "lookup", zoneErr |-> zoneErr,
                 first |-> IF ret'.err = "" /\ Desc(p).ID \notin DOMAIN probe.first
                           THEN [id \in DOMAIN probe.first \cup {Desc(p).ID} |->
                                    IF id = Desc(p).ID THEN ret'.zone ELSE probe.first[id]]
                           ELSE probe.first]
    /\ UNCHANGED leased

NextZone ==
    \/ ResetZone
    \/ \E p \in ZoneDescs, zoneErr \in BOOLEAN : LookupZone(p, zoneErr)
    \/ \E k \in {NoCfg, 1, 2, 4} : Gossip(k) /\ UNCHANGED <<leased, probe>>

SpecZone == InitZone /\ [][NextZone]_vars

---------------------------------------------------------------------------
(* A session on table t whose statistics include one on a column dropped   *)
(* since: probe holds the cache entry of t as it was before the last       *)
(* lookup.                                                                 *)

\* nil, and two arrays holding a statistic on column a and one on the
\* dropped column 4
DroppedSnapshots ==
    {NilStats} \cup {[tag |-> t, list |-> <<Stat(1, <<1>>), Stat(1, <<4>>)>>] : t \in 1..MaxInst}

InitDropped ==
    /\ dataSources = <<>>
    /\ cfg = NoCfg
    /\ heap = <<>>
    /\ gossip = NoCfg
    /\ statsCache = [id \in TableIDs |-> NilStats]
    /\ leased = 0
    /\ avoidCachedDescriptors = FALSE
    /\ ret = NoRet
    /\ prev = NoAddr
    /\ probe = [phase |-> "start", noTableStats |-> FALSE, cached |-> FALSE,
                wrapper |-> NoObj]

\* a lookup by name of table t
LookupDropped(noTableStats) ==
    /\ ResolveDataSource(FALSE, noTableStats, 1, "db1", "", "", FALSE, FALSE, "found")
    /\ probe' = [phase |-> "lookup", noTableStats |-> noTableStats,
                 cached |-> Cached(1),
                 wrapper |-> IF Cached(1) THEN heap[dataSources[1]] ELSE NoObj]
    /\ UNCHANGED leased

NextDropped ==
    \/ Reset /\ UNCHANGED <<leased, probe>>
    \/ \E noTableStats \in BOOLEAN : LookupDropped(noTableStats)
    \/ \E s \in DroppedSnapshots : RefreshStats(51, s) /\ UNCHANGED <<leased, probe>>
    \/ \E k \in {NoCfg, 2, 3} : Gossip(k) /\ UNCHANGED <<leased, probe>>

SpecDropped == InitDropped /\ [][NextDropped]_vars

---------------------------------------------------------------------------
(* Properties.                                                             *)

\* the last call returned a data source
Returned == ret.err = "" /\ ret.ds # NoAddr

\* the last call returned the wrapper of a non-virtual table or materialized view
ReturnedTable == Returned /\ TableLike(ret.desc) /\ ~IsVirtualTable(ret.desc)

\* C1: every lookup of a non-virtual table or materialized view re-validates
\* the cached wrapper: the optTable a call returns was built with a
\* statistics slice of the same length and, when non-empty, the same
\* backing array as the one the call fetched, and with a zone config deeply
\* equal to the one the call fetched.
C1_LookupRevalidates ==
    ReturnedTable =>
        /\ heap[ret.ds].kind = "optTable"
        /\ heap[ret.ds].desc = ret.desc
        /\ Len(heap[ret.ds].rawStats.list) = Len(ret.tableStats.list)
        /\ (Len(ret.tableStats.list) > 0 => heap[ret.ds].rawStats = ret.tableStats)
        /\ heap[ret.ds].zone.cfg = ret.zone.cfg

\* a cached wrapper passed the re-validation with statistics and with a zone
\* config object other than the one it was built with
C1_Witness ==
    /\ ReturnedTable
    /\ Len(ret.tableStats.list) > 0
    /\ heap[ret.ds].zone.tag # ret.zone.tag
    /\ heap[ret.ds].zone.cfg # EmptyCfg

\* the columns whose user-defined-type version differs between two
\* descriptors of one table at one version
TypeVersionChanged(p, q) ==
    {i \in 1..Len(Desc(p).Columns) :
        Desc(p).Columns[i].udtVersion # Desc(q).Columns[i].udtVersion}

\* C2: isStale returns true exactly when the lengths of the statistics
\* slices differ, or both are non-empty and are different instances, or the
\* new zone is not deeply equal to the cached zone, or some column's
\* user-defined-type version differs between the candidate and the cached
\* descriptor; in every other case it returns false.
C2_IsStaleExact ==
    probe.phase = "isStale" =>
        (probe.result <=>
            \/ Len(probe.tableStats.list) # Len(probe.ot.rawStats.list)
            \/ /\ Len(probe.tableStats.list) > 0
               /\ Len(probe.ot.rawStats.list) > 0
               /\ probe.tableStats # probe.ot.rawStats
            \/ probe.zone.cfg # probe.ot.zone.cfg
            \/ TypeVersionChanged(probe.ot.desc, probe.rawDesc) # {})

\* isStale returned false for the same non-empty statistics instance, a zone
\* config object of equal contents and another instance of the descriptor
C2_Witness ==
    /\ probe.phase = "isStale"
    /\ ~probe.result
    /\ Len(probe.tableStats.list) > 0
    /\ probe.zone.tag # probe.ot.zone.tag
    /\ probe.rawDesc # probe.ot.desc

\* C3 as stated: isStale with a different statistics slice instance of equal
\* length returns true, for every length including zero.
C3_DifferentInstanceIsStale ==
    (/\ probe.phase = "isStale"
     /\ probe.tableStats # probe.ot.rawStats
     /\ Len(probe.tableStats.list) = Len(probe.ot.rawStats.list))
        => probe.result

\* C3: isStale with a different statistics slice instance of equal non-zero
\* length returns true.
C3_DifferentNonEmptyInstanceIsStale ==
    (/\ probe.phase = "isStale"
     /\ probe.tableStats # probe.ot.rawStats
     /\ Len(probe.tableStats.list) = Len(probe.ot.rawStats.list)
     /\ Len(probe.tableStats.list) > 0)
        => probe.result

\* isStale returned true for another array of equal contents, with the zone
\* and the descriptor unchanged
C3_Witness ==
    /\ probe.phase = "isStale"
    /\ probe.result
    /\ probe.tableStats.tag # probe.ot.rawStats.tag
    /\ probe.tableStats.list = probe.ot.rawStats.list
    /\ Len(probe.tableStats.list) > 0
    /\ probe.zone = probe.ot.zone
    /\ probe.rawDesc = probe.ot.desc

\* C4: reset empties the cache if and only if it holds more than 100 entries
\* at reset time: with more than 100 entries the cache is empty right after
\* the reset and grows again on later resolutions; with 100 or fewer every
\* entry is left unchanged.
C4_ResetDiscardsAbove100 ==
    /\ probe.phase = "reset" =>
          IF Cardinality(DOMAIN probe.before) > 100
          THEN dataSources = <<>>
          ELSE dataSources = probe.before
    /\ (probe.phase = "resolve" /\ Returned /\ ret.desc \notin DOMAIN probe.before) =>
          Cardinality(DOMAIN dataSources) = Cardinality(DOMAIN probe.before) + 1

\* the cache was discarded by a reset and has grown again
C4_Witness ==
    /\ probe.phase = "resolve"
    /\ leased > 100
    /\ probe.before = <<>>
    /\ Cardinality(DOMAIN dataSources) = 1

\* a view that is not materialized, or a sequence
ViewOrSequence(p) == (IsView(p) /\ ~MaterializedView(p)) \/ IsSequence(p)

\* C5: views and sequences are cached unconditionally by descriptor identity:
\* a resolution of a view or sequence descriptor consults neither the
\* statistics nor the zone configs, returns the wrapper the cache holds for
\* the descriptor, which is the one it held before the call if there was
\* one, and no resolution changes or drops an entry; only a reset discards.
C5_ViewsCachedByIdentity ==
    /\ (probe.phase = "resolve" /\ Returned /\ ViewOrSequence(ret.desc)) =>
          /\ ~ret.statsAsked
          /\ ~ret.zoneAsked
          /\ heap[ret.ds].desc = ret.desc
          /\ dataSources[ret.desc] = ret.ds
          /\ ret.desc \in DOMAIN probe.before => ret.ds = probe.before[ret.desc]
    /\ probe.phase = "resolve" =>
          \A p \in DOMAIN probe.before :
              p \in DOMAIN dataSources /\ dataSources[p] = probe.before[p]

\* a view resolved before was resolved again, with a system config at hand,
\* and the cached wrapper came back
C5_Witness ==
    /\ probe.phase = "resolve"
    /\ Returned
    /\ IsView(ret.desc)
    /\ cfg # NoCfg
    /\ ret.desc \in DOMAIN probe.before
    /\ ret.ds = probe.before[ret.desc]

\* a virtual table (a virtual view is a view)
VirtualTable(p) == IsVirtualTable(p) /\ IsTable(p)

\* C6: virtual tables are never cached: the cache never holds an entry for a
\* virtual-table descriptor, and every resolution of a virtual table returns
\* a new optVirtualTable, built from the descriptor and the name of the call.
C6_VirtualTablesNotCached ==
    /\ \A p \in DOMAIN dataSources : ~VirtualTable(p)
    /\ (Returned /\ VirtualTable(ret.desc)) =>
          /\ heap[ret.ds].kind = "optVirtualTable"
          /\ heap[ret.ds].desc = ret.desc
          /\ heap[ret.ds].id.low = Desc(ret.desc).ID
          /\ heap[ret.ds].name.Object = Desc(ret.desc).Name
          /\ heap[ret.ds].name.Catalog = "" <=> heap[ret.ds].id.high = 0
          /\ ret.ds # prev
          /\ \A p \in DOMAIN dataSources : dataSources[p] # ret.ds

\* one virtual-table descriptor was resolved twice, under names of different
\* catalogs, into two wrappers of different IDs
C6_Witness ==
    /\ Returned
    /\ VirtualTable(ret.desc)
    /\ prev # NoAddr
    /\ heap[prev].kind = "optVirtualTable"
    /\ heap[prev].desc = ret.desc
    /\ heap[prev].id # heap[ret.ds].id

\* C7: when a table lookup finds a cached wrapper that is stale, a newly
\* built wrapper replaces the cache entry under the same descriptor key (the
\* number of entries does not change) and the wrapper cached before is not
\* modified; no step modifies a wrapper that exists before and after it.
C7_StaleEntryReplaced ==
    [][/\ \A a \in DOMAIN heap \cap DOMAIN heap' : heap'[a] = heap[a]
       /\ (/\ ret' # ret
           /\ ret'.err = ""
           /\ ret'.desc \in DOMAIN dataSources
           /\ TableLike(ret'.desc)
           /\ isStale(heap[dataSources[ret'.desc]], ret'.desc,
                      ret'.tableStats, ret'.zone))
          => /\ DOMAIN dataSources' = DOMAIN dataSources
             /\ dataSources'[ret'.desc] = ret'.ds
             /\ ret'.ds \notin DOMAIN heap
             /\ heap'[ret'.ds].kind = "optTable"
             /\ \A p \in DOMAIN dataSources :
                   p # ret'.desc => dataSources'[p] = dataSources[p]]_vars

\* the wrapper the caller got before is still there, stale, while the cache
\* holds the wrapper that replaced it
C7_Witness ==
    /\ ReturnedTable
    /\ prev # NoAddr
    /\ prev # ret.ds
    /\ dataSources[ret.desc] = ret.ds
    /\ heap[prev].desc = ret.desc
    /\ isStale(heap[prev], ret.desc, ret.tableStats, ret.zone)

\* the last two data sources returned are table wrappers of one table name
\* with no schema change between them
SameTableTwice ==
    /\ ReturnedTable
    /\ prev # NoAddr
    /\ heap[prev].kind = "optTable"
    /\ heap[ret.ds].kind = "optTable"
    /\ Desc(heap[prev].desc) = Desc(ret.desc)

\* C8 as stated: resolving the same table name twice within one session with
\* no schema change in between returns wrappers for which Equals is true.
C8_IdentityStability ==
    SameTableTwice => Equals(heap[prev], heap[ret.ds])

\* C8: resolving the same table name twice within one session with no schema
\* change in between returns wrappers for which Equals is true, provided the
\* two resolutions used statistics of equal contents and deeply equal zone
\* configs.
C8_IdentityStabilityOfEqualInputs ==
    (/\ SameTableTwice
     /\ heap[prev].rawStats.list = heap[ret.ds].rawStats.list
     /\ heap[prev].zone.cfg = heap[ret.ds].zone.cfg)
        => Equals(heap[prev], heap[ret.ds])

\* the second resolution rebuilt the wrapper, from another statistics array
\* of equal contents
C8_Witness ==
    /\ SameTableTwice
    /\ prev # ret.ds
    /\ heap[prev].rawStats.tag # heap[ret.ds].rawStats.tag
    /\ heap[prev].rawStats.list = heap[ret.ds].rawStats.list
    /\ heap[prev].zone.cfg = heap[ret.ds].zone.cfg
    /\ Len(heap[ret.ds].stats) > 0

\* two wrappers built independently from descriptors of identical ID and
\* version, the same statistics instance and the same placement
BuiltTwice ==
    /\ probe.phase = "Equals"
    /\ probe.a.addr # probe.b.addr
    /\ Desc(probe.a.desc).ID = Desc(probe.b.desc).ID
    /\ Desc(probe.a.desc).Version = Desc(probe.b.desc).Version
    /\ probe.a.rawStats = probe.b.rawStats
    /\ probe.a.zone.cfg = probe.b.zone.cfg

\* C9 as stated: two wrappers built from descriptors with identical ID,
\* version, statistics instance and placement are Equals.
C9_RoundTrip ==
    BuiltTwice => probe.result

\* C9: two wrappers built from descriptors with identical ID, version,
\* user-defined-type versions, statistics instance and placement are two
\* distinct objects that are Equals.
C9_RoundTripOfSameTypes ==
    (BuiltTwice /\ TypeVersionChanged(probe.a.desc, probe.b.desc) = {})
        => probe.result

\* two builds from two descriptor instances, with statistics and with an
\* index zone that each build copies from a subzone
C9_Witness ==
    /\ BuiltTwice
    /\ probe.result
    /\ probe.a.desc # probe.b.desc
    /\ Len(probe.a.stats) > 0
    /\ \E i \in 1..Len(probe.a.indexes) :
          probe.a.indexes[i].zone.tag # probe.b.indexes[i].zone.tag

\* C10: Equals is true for one and the same object; otherwise false if the
\* descriptor ID or version differ, false if the numbers of retained
\* statistics differ or a pair of statistics differs in creation timestamp
\* or column ordinals, false if a column's user-defined-type version
\* differs, false if an index zone is not deeply equal to its counterpart,
\* and true otherwise.
C10_EqualsExact ==
    probe.phase = "Equals" =>
        (probe.result <=>
            \/ probe.a.addr = probe.b.addr
            \/ /\ Desc(probe.a.desc).ID = Desc(probe.b.desc).ID
               /\ Desc(probe.a.desc).Version = Desc(probe.b.desc).Version
               /\ Len(probe.a.stats) = Len(probe.b.stats)
               /\ \A i \in 1..Len(probe.a.stats) :
                     /\ probe.a.stats[i].CreatedAt = probe.b.stats[i].CreatedAt
                     /\ probe.a.stats[i].columnOrdinals = probe.b.stats[i].columnOrdinals
               /\ TypeVersionChanged(probe.a.desc, probe.b.desc) = {}
               /\ \A i \in 1..Len(probe.a.indexes) :
                     probe.a.indexes[i].zone.cfg = probe.b.indexes[i].zone.cfg)

\* Equals returned false for two wrappers that differ in the type version of
\* a column only
C10_Witness ==
    /\ probe.phase = "Equals"
    /\ ~probe.result
    /\ probe.a.addr # probe.b.addr
    /\ probe.a.stats = probe.b.stats
    /\ Len(probe.a.stats) > 0
    /\ probe.a.zone = probe.b.zone
    /\ Desc(probe.a.desc).Version = Desc(probe.b.desc).Version
    /\ TypeVersionChanged(probe.a.desc, probe.b.desc) # {}

\* the index descriptor with a nullable declared key column
HasNullableKey(p, idxDesc) ==
    \E i \in 1..Len(idxDesc.ColumnIDs), j \in 1..Len(Desc(p).Columns) :
        /\ Desc(p).Columns[j].ID = idxDesc.ColumnIDs[i]
        /\ Desc(p).Columns[j].Nullable

\* C11: key-column derivation, for every index of a built table: unique
\* with no nullable declared key column, lax = key = declared; unique with a
\* nullable declared key column, lax = declared and key = lax + extra; not
\* unique, lax = key = declared + extra.
C11_KeyColumnDerivation ==
    probe.phase = "newOptTable" =>
        \A i \in 1..Len(probe.ot.indexes) :
            LET oi == probe.ot.indexes[i]
                d == IndexDescs(Desc(probe.p))[i]
                declared == Len(d.ColumnIDs)
                extra == Len(d.ExtraColumnIDs)
            IN  /\ (d.Unique /\ ~HasNullableKey(probe.p, d)) =>
                      (oi.numLaxKeyCols = declared /\ oi.numKeyCols = declared)
                /\ (d.Unique /\ HasNullableKey(probe.p, d)) =>
                      (oi.numLaxKeyCols = declared
                       /\ oi.numKeyCols = oi.numLaxKeyCols + extra)
                /\ ~d.Unique =>
                      (oi.numLaxKeyCols = declared + extra
                       /\ oi.numKeyCols = declared + extra)

\* a unique index on a nullable column whose key is longer than its lax key
C11_Witness ==
    /\ probe.phase = "newOptTable"
    /\ \E i \in 1..Len(probe.ot.indexes) :
          /\ probe.ot.indexes[i].desc.Unique
          /\ probe.ot.indexes[i].numLaxKeyCols = 2
          /\ probe.ot.indexes[i].numKeyCols > probe.ot.indexes[i].numLaxKeyCols

\* the IDs of the columns cols that are not declared key columns of idxDesc
NonKeyColumnIDs(cols, idxDesc) ==
    {cols[i].ColID : i \in 1..Len(cols)} \ Range(idxDesc.ColumnIDs)

\* C12 as stated: the stored columns of the primary index are every column
\* of the table after construction that is not a declared key column; those
\* of a secondary index are the descriptor's store-column list.
C12_StoredColumns ==
    probe.phase = "newOptTable" =>
        \A i \in 1..Len(probe.ot.indexes) :
            IF i = 1
            THEN /\ Range(probe.ot.indexes[i].storedCols)
                       = NonKeyColumnIDs(probe.ot.columns, IndexDescs(Desc(probe.p))[i])
                 /\ Len(probe.ot.indexes[i].storedCols)
                       = Cardinality({j \in 1..Len(probe.ot.columns) :
                            probe.ot.columns[j].ColID
                               \notin Range(IndexDescs(Desc(probe.p))[i].ColumnIDs)})
            ELSE probe.ot.indexes[i].storedCols = IndexDescs(Desc(probe.p))[i].StoreColumnIDs

\* the columns of a built table that are not virtual
RealColumns(ot) ==
    LET real(col) == col.Kind # "Virtual" IN SelectSeq(ot.columns, real)

\* C12: the stored columns of the primary index are the columns of the table
\* other than the virtual columns of inverted indexes (which are appended
\* after the primary index is built) that are not declared key columns, in
\* table order; those of a secondary index are the descriptor's store-column
\* list.
C12_StoredColumnsOfRealColumns ==
    probe.phase = "newOptTable" =>
        \A i \in 1..Len(probe.ot.indexes) :
            IF i = 1
            THEN /\ Range(probe.ot.indexes[i].storedCols)
                       = NonKeyColumnIDs(RealColumns(probe.ot), IndexDescs(Desc(probe.p))[i])
                 /\ Len(probe.ot.indexes[i].storedCols)
                       = Len(RealColumns(probe.ot)) - Len(IndexDescs(Desc(probe.p))[i].ColumnIDs)
                 /\ \A j, k \in 1..Len(probe.ot.indexes[i].storedCols) :
                       j < k =>
                         lookupColumnOrdinal(probe.ot.colMap, probe.ot.indexes[i].storedCols[j])
                           < lookupColumnOrdinal(probe.ot.colMap, probe.ot.indexes[i].storedCols[k])
            ELSE probe.ot.indexes[i].storedCols = IndexDescs(Desc(probe.p))[i].StoreColumnIDs

\* a table with a two-column primary key and an inverted secondary index
\* that stores a column
C12_Witness ==
    /\ probe.phase = "newOptTable"
    /\ Len(probe.ot.indexes[1].desc.ColumnIDs) = 2
    /\ probe.ot.indexes[1].storedCols = <<3, MVCCTimestampColumnID>>
    /\ probe.ot.indexes[2].storedCols # <<>>
    /\ Len(probe.ot.columns) > Len(RealColumns(probe.ot))

FlagOps == {"ResolveSchema", "ResolveDataSource", "ResolveDataSourceByID"}

\* C13 as stated: a call of any of the four entry points by a caller that
\* resolves with AvoidDescriptorCaches runs with the planner's
\* avoidCachedDescriptors true and leaves it at the value it had before
C13_AllFourAvoidCaches ==
    (probe.phase = "call" /\ probe.avoid)
        => (ret.avoided /\ avoidCachedDescriptors = probe.flagBefore)

\* C13: ResolveSchema, ResolveDataSource and ResolveDataSourceByID called
\* with AvoidDescriptorCaches run with the planner's avoidCachedDescriptors
\* true and leave it, on success and on every error, at the value it had
\* before; ResolveTypeByOID takes no flags and runs with, and leaves, the
\* planner's flag as it finds it
C13_ThreeAvoidCaches ==
    probe.phase = "call"
        => /\ avoidCachedDescriptors = probe.flagBefore
           /\ (ret.op \in FlagOps /\ probe.avoid) => ret.avoided
           /\ ret.op = "ResolveTypeByOID" => ret.avoided = probe.flagBefore

C13_Witness ==
    /\ probe.phase = "call"
    /\ ret.op = "ResolveSchema"
    /\ ret.err = "internal error"
    /\ probe.avoid
    /\ ~probe.flagBefore
    /\ ret.avoided
    /\ ~avoidCachedDescriptors

\* C14: ResolveDataSourceByID returns no data source, isAdding = true and an
\* undefined-relation error when the table is being added; isAdding = false
\* and an undefined-relation error when the descriptor does not exist; any
\* other lookup error unchanged with isAdding = false; isAdding = false on
\* success
C14_AddingDistinguished ==
    (probe.phase = "call" /\ ret.op = "ResolveDataSourceByID")
        => /\ probe.err = "adding"
                => (ret.ds = NoAddr /\ ret.isAdding /\ ret.err = "undefined relation")
           /\ probe.err = ErrDescriptorNotFound
                => (ret.ds = NoAddr /\ ~ret.isAdding /\ ret.err = "undefined relation")
           /\ probe.err \notin {"", "adding", ErrDescriptorNotFound}
                => (ret.ds = NoAddr /\ ~ret.isAdding /\ ret.err = probe.err)
           /\ probe.err = "" => ~ret.isAdding
           /\ (probe.err = "" /\ ~probe.zoneErr) => Returned

C14_Witness ==
    /\ probe.phase = "call"
    /\ ret.op = "ResolveDataSourceByID"
    /\ probe.err = "adding"
    /\ ret.isAdding
    /\ ret.err = "undefined relation"
    /\ ret.ds = NoAddr

\* C15: when the name resolution of ResolveDataSource fails or the access to
\* the schema is denied, the error is returned unchanged (the resolution
\* error first), no data source is returned, the statistics and zone
\* providers are not consulted and the cache is as it was before the call
C15_FailsBeforeBuilder ==
    (/\ probe.phase = "call"
     /\ ret.op = "ResolveDataSource"
     /\ (probe.err # "" \/ probe.denied # ""))
        => /\ ret.err = IF probe.err # "" THEN probe.err ELSE probe.denied
           /\ ret.ds = NoAddr
           /\ ~ret.statsAsked
           /\ ~ret.zoneAsked
           /\ dataSources = probe.before

C15_Witness ==
    /\ probe.phase = "call"
    /\ ret.op = "ResolveDataSource"
    /\ probe.err = ""
    /\ probe.denied = "permission denied"
    /\ ret.err = "permission denied"
    /\ 1 \notin DOMAIN dataSources
    /\ statsCache[51] # NilStats
    /\ cfg # NoCfg

\* C16: a resolution of a table whose statistics fetch fails, and whose zone
\* lookup succeeds, returns without error a table with StatisticCount() = 0
C16_StatsErrorIgnored ==
    (/\ probe.phase = "call"
     /\ ret.op \in {"ResolveDataSource", "ResolveDataSourceByID"}
     /\ probe.statsErr
     /\ ~probe.zoneErr)
        => /\ ret.err = ""
           /\ ret.ds # NoAddr
           /\ Len(heap[ret.ds].stats) = 0

C16_Witness ==
    /\ probe.phase = "call"
    /\ ret.op = "ResolveDataSource"
    /\ probe.statsErr
    /\ ret.err = ""
    /\ statsCache[51] # NilStats
    /\ 1 \in DOMAIN probe.before
    /\ ret.ds # probe.before[1]
    /\ Len(heap[ret.ds].stats) = 0

\* C17: the statistics of a built table are exactly the input statistics all
\* of whose column IDs are in the column-ID-to-ordinal map, in input order,
\* each with its column IDs translated to ordinals by the map; the others
\* are dropped and the build does not fail
C17_StatsRetained ==
    probe.phase = "newOptTable"
        => LET list == probe.s.list
               colMap == probe.ot.colMap
               keep == {i \in 1..Len(list) :
                          \A j \in 1..Len(list[i].ColumnIDs) :
                             list[i].ColumnIDs[j] \in DOMAIN colMap}
               nth(k) == CHOOSE i \in keep : Cardinality({j \in keep : j <= i}) = k
           IN  /\ Len(probe.ot.stats) = Cardinality(keep)
               /\ \A k \in 1..Len(probe.ot.stats) :
                     /\ probe.ot.stats[k].CreatedAt = list[nth(k)].CreatedAt
                     /\ probe.ot.stats[k].columnOrdinals
                           = [j \in 1..Len(list[nth(k)].ColumnIDs) |->
                                 colMap[list[nth(k)].ColumnIDs[j]]]

C17_Witness ==
    /\ probe.phase = "newOptTable"
    /\ probe.s.list = <<Stat(MaxCreatedAt, <<1, 4>>), Stat(1, <<3, 1>>)>>
    /\ probe.ot.stats = <<[CreatedAt |-> 1, columnOrdinals |-> <<2, 0>>]>>

\* the high half of the stable ID of a virtual table named with catalog n
DatabaseHalf(n) ==
    IF n = "" THEN 0 ELSE IF LookupSchema(n) = "found" THEN DatabaseID(n) ELSE MaxUint32

\* C18: the stable ID of a virtual table is the descriptor ID in the low 32
\* bits and, in the high 32 bits, the ID of the database of its name, zero
\* without a database qualifier and 0xFFFFFFFF when the qualifier names no
\* database; PostgresDescriptorID is the descriptor ID; the same descriptor
\* named with two different ones of: two databases, no database, a database
\* that does not exist, has two different stable IDs
C18_VirtualTableIdentity ==
    (probe.phase = "newOptVirtualTable" /\ ~probe.a.panicked)
        => /\ probe.a.err = "" /\ probe.b.err = ""
           /\ probe.a.obj.id = [low |-> Desc(probe.p).ID, high |-> DatabaseHalf(probe.n1)]
           /\ probe.b.obj.id = [low |-> Desc(probe.p).ID, high |-> DatabaseHalf(probe.n2)]
           /\ PostgresDescriptorID(probe.a.obj) = Desc(probe.p).ID
           /\ probe.n1 # probe.n2 => probe.a.obj.id # probe.b.obj.id

C18_Witness ==
    /\ probe.phase = "newOptVirtualTable"
    /\ probe.n1 = ""
    /\ probe.n2 = "nodb"
    /\ probe.a.err = ""
    /\ probe.b.err = ""
    /\ probe.a.obj.id.high = 0
    /\ probe.b.obj.id.high = MaxUint32
    /\ probe.a.obj.id.low = probe.b.obj.id.low

\* C19: the construction of a virtual table panics exactly when a declared
\* index has more than one key column; a built virtual table has the
\* synthesized primary index at ordinal 0, then one index per declared index
\* in order; every index has 2 key columns and 2 lax key columns; column 0
\* of a declared index is the indexed column and column 1 the dummy PK
\* column at table ordinal 0
C19_VirtualIndexes ==
    probe.phase = "newOptVirtualTable"
        => LET declared == Desc(probe.p).Indexes
               vt == probe.a.obj
               nameOf(id) == LET c == CHOOSE c \in 1..Len(Desc(probe.p).Columns) :
                                            Desc(probe.p).Columns[c].ID = id
                             IN  Desc(probe.p).Columns[c].Name
           IN  /\ probe.a.panicked
                     <=> \E i \in 1..Len(declared) : Len(declared[i].ColumnIDs) > 1
               /\ ~probe.a.panicked =>
                     /\ Len(vt.indexes) = 1 + Len(declared)
                     /\ vt.indexes[1].isPrimary
                     /\ \A k \in 1..Len(vt.indexes) :
                           /\ vt.indexes[k].indexOrdinal = k - 1
                           /\ KeyColumnCount(vt.indexes[k]) = 2
                           /\ LaxKeyColumnCount(vt.indexes[k]) = 2
                     /\ \A i \in 1..Len(declared) :
                           /\ ~vt.indexes[i + 1].isPrimary
                           /\ vt.indexes[i + 1].desc = declared[i]
                           /\ vt.columns[optVirtualIndexColumn(vt, vt.indexes[i + 1], 0) + 1].ColName
                                 = nameOf(declared[i].ColumnIDs[1])
                           /\ optVirtualIndexColumn(vt, vt.indexes[i + 1], 1) = 0
                     /\ vt.columns[1].ColName = "crdb_internal_vtable_pk"

C19_Witness ==
    /\ probe.phase = "newOptVirtualTable"
    /\ probe.p = 502
    /\ ~probe.a.panicked
    /\ Len(probe.a.obj.indexes) = 3
    /\ optVirtualIndexColumn(probe.a.obj, probe.a.obj.indexes[3], 0) = 3
    /\ optVirtualIndexColumn(probe.a.obj, probe.a.obj.indexes[3], 1) = 0

\* C20: OriginColumnOrdinal called with a table that is not the origin table
\* of the constraint, and ReferencedColumnOrdinal with a table that is not
\* its referenced table, panics; called with that table, it returns the
\* ordinal in the table of the i-th origin, or referenced, column
C20_ForeignKeyOrdinals ==
    probe.phase = "ColumnOrdinal"
        => /\ probe.origin.panicked <=> Desc(probe.q).ID # ChildParentFK.OriginTableID
           /\ ~probe.origin.panicked =>
                 probe.tab.columns[probe.origin.ord + 1].ColID
                    = ChildParentFK.OriginColumnIDs[probe.i + 1]
           /\ probe.referenced.panicked
                 <=> Desc(probe.q).ID # ChildParentFK.ReferencedTableID
           /\ ~probe.referenced.panicked =>
                 probe.tab.columns[probe.referenced.ord + 1].ColID
                    = ChildParentFK.ReferencedColumnIDs[probe.i + 1]

C20_Witness ==
    /\ probe.phase = "ColumnOrdinal"
    /\ probe.p = 601
    /\ probe.q = 602
    /\ probe.i = 1
    /\ probe.origin.panicked
    /\ probe.referenced = [panicked |-> FALSE, ord |-> 2]

\* the ordinals (from 1) of the system columns of a built table
SystemOrdinals(ot) == {i \in 1..Len(ot.columns) : ot.columns[i].Kind = "System"}

\* C21 as stated: newOptTable appends exactly one hidden, non-nullable system
\* column after the descriptor's columns unless a column of the reserved name
\* exists, and then none.
C21_SystemColumnNonNullable ==
    probe.phase = "newOptTable" =>
        LET d == Desc(probe.p)
            own == Len(DeletableColumns(d))
        IN  IF \E i \in 1..own : DeletableColumns(d)[i].Name = MVCCTimestampColumnName
            THEN SystemOrdinals(probe.ot) = {}
            ELSE /\ SystemOrdinals(probe.ot) = {own + 1}
                 /\ probe.ot.columns[own + 1].Hidden
                 /\ ~probe.ot.columns[own + 1].Nullable

\* C21: newOptTable appends exactly one system column, hidden and nullable,
\* with the reserved name and ID, right after the descriptor's columns
\* (mutation columns included) unless a column of the reserved name exists
\* on the table, and then no system column is added; the descriptor's
\* columns come first in either case.
C21_SystemColumn ==
    probe.phase = "newOptTable" =>
        LET d == Desc(probe.p)
            own == Len(DeletableColumns(d))
        IN  /\ \A i \in 1..own :
                   /\ probe.ot.columns[i].ColID = DeletableColumns(d)[i].ID
                   /\ probe.ot.columns[i].Kind # "System"
            /\ IF \E i \in 1..own : DeletableColumns(d)[i].Name = MVCCTimestampColumnName
               THEN SystemOrdinals(probe.ot) = {}
               ELSE /\ SystemOrdinals(probe.ot) = {own + 1}
                    /\ probe.ot.columns[own + 1].ColName = MVCCTimestampColumnName
                    /\ probe.ot.columns[own + 1].ColID = MVCCTimestampColumnID
                    /\ probe.ot.columns[own + 1].Hidden
                    /\ probe.ot.columns[own + 1].Nullable

\* a table with a column of the reserved name and a pending mutation was
\* built without a system column
C21_Witness ==
    /\ probe.phase = "newOptTable"
    /\ \E i \in 1..Len(Desc(probe.p).Columns) :
          Desc(probe.p).Columns[i].Name = MVCCTimestampColumnName
    /\ Desc(probe.p).WriteOnly # <<>>
    /\ SystemOrdinals(probe.ot) = {}
    /\ Len(probe.ot.columns) >= Len(DeletableColumns(Desc(probe.p)))

\* C22 as stated: after newOptTable returns the column map sends the ID of
\* Column(i) to i for every ordinal i below ColumnCount(), the system column
\* and the virtual columns of inverted indexes included, and has no other
\* entry.
C22_ColMapOverFinalColumns ==
    probe.phase = "newOptTable" =>
        /\ \A i \in 1..Len(probe.ot.columns) :
               /\ probe.ot.columns[i].ColID \in DOMAIN probe.ot.colMap
               /\ probe.ot.colMap[probe.ot.columns[i].ColID] = i - 1
        /\ DOMAIN probe.ot.colMap =
               {probe.ot.columns[i].ColID : i \in 1..Len(probe.ot.columns)}

\* C22: after newOptTable returns the column map sends the ID of Column(i)
\* to i for every ordinal i of a column that is not a virtual column of an
\* inverted index (the descriptor's columns, mutation columns included, and
\* the system column), has no other entry, and so has no entry for a
\* virtual column, which comes after all of them.
C22_ColMapOverColumnsBeforeIndexes ==
    probe.phase = "newOptTable" =>
        LET real == Len(RealColumns(probe.ot))
        IN  /\ \A i \in 1..Len(probe.ot.columns) :
                   (probe.ot.columns[i].Kind = "Virtual") <=> (i > real)
            /\ \A i \in 1..real :
                   /\ probe.ot.columns[i].ColID \in DOMAIN probe.ot.colMap
                   /\ probe.ot.colMap[probe.ot.columns[i].ColID] = i - 1
            /\ DOMAIN probe.ot.colMap = {probe.ot.columns[i].ColID : i \in 1..real}
            /\ \A i \in (real + 1)..Len(probe.ot.columns) :
                   probe.ot.columns[i].ColID \notin DOMAIN probe.ot.colMap

\* a table with mutation columns, the system column and the virtual
\* columns of two inverted indexes was built
C22_Witness ==
    /\ probe.phase = "newOptTable"
    /\ Desc(probe.p).DeleteOnly # <<>>
    /\ SystemOrdinals(probe.ot) # {}
    /\ Len(probe.ot.columns) = Cardinality(DOMAIN probe.ot.colMap) + 2
    /\ probe.ot.colMap[MVCCTimestampColumnID] = 6

\* the ordinals (from 1) of the columns of a built table that are not in a
\* mutation state and whose type is a user-defined enum
EnumOrdinals(ot) ==
    {i \in 1..Len(ot.columns) :
        /\ ot.columns[i].Kind \notin {"WriteOnly", "DeleteOnly"}
        /\ ot.columns[i].Type = EnumType}

\* C23: the check constraints of a built table are the descriptor's active
\* checks in order, followed by exactly one synthesized check per
\* non-mutation column whose type is a user-defined enum, which constrains
\* the column to the members of the enum and is validated; mutation columns
\* and columns of other user-defined types get none, so the number of checks
\* is the number of active checks plus the number of those columns.
C23_CheckConstraints ==
    probe.phase = "newOptTable" =>
        LET active == Desc(probe.p).ActiveChecks
            checks == probe.ot.checkConstraints
            enums == EnumOrdinals(probe.ot)
        IN  /\ Len(checks) = Len(active) + Cardinality(enums)
            /\ \A i \in 1..Len(active) : checks[i].Constraint = active[i].Expr
            /\ \A i \in enums :
                   LET k == Cardinality({j \in enums : j <= i})
                   IN  checks[Len(active) + k] =
                           [Constraint |-> <<probe.ot.columns[i].ColName, "IN", "x", "y">>,
                            Validated |-> TRUE]

\* a table with two active checks, an enum column and an enum column in a
\* mutation state was built with three checks
C23_Witness ==
    /\ probe.phase = "newOptTable"
    /\ Len(Desc(probe.p).ActiveChecks) = 2
    /\ \E i \in 1..Len(probe.ot.columns) :
          /\ probe.ot.columns[i].Kind = "WriteOnly"
          /\ probe.ot.columns[i].Type = EnumType
    /\ Cardinality(EnumOrdinals(probe.ot)) = 1
    /\ Len(probe.ot.checkConstraints) = 3
    /\ ~probe.ot.checkConstraints[2].Validated

\* the ordinal (from 0) of the column of a built table with the given ID
OrdinalOfID(ot, id) ==
    (CHOOSE j \in 1..Len(ot.columns) : ot.columns[j].ColID = id) - 1

\* C27: for every inverted index of a built table exactly one non-nullable
\* virtual column is appended after all real and system columns, in index
\* order; its type is the type of the index's declared first column, it
\* carries that column's ordinal as back-reference, and Column(0) of the
\* index is the virtual column while Column(i) for i > 0, and every column
\* of an index that is not inverted, is the column the descriptor names.
C27_InvertedKeyColumn ==
    probe.phase = "newOptTable" =>
        LET ot == probe.ot
            idxDescs == IndexDescs(Desc(probe.p))
            real == Len(RealColumns(ot))
            inverted == {i \in 1..Len(idxDescs) : idxDescs[i].Inverted}
        IN  /\ Len(ot.columns) = real + Cardinality(inverted)
            /\ \A j \in 1..Len(ot.columns) : (ot.columns[j].Kind = "Virtual") <=> (j > real)
            /\ \A i \in 1..Len(idxDescs) :
                   LET oi == ot.indexes[i]
                       ids == idxDescs[i].ColumnIDs \o idxDescs[i].ExtraColumnIDs
                                  \o oi.storedCols
                       k == Cardinality({j \in inverted : j <= i})
                       source == OrdinalOfID(ot, idxDescs[i].ColumnIDs[1])
                   IN  /\ oi.numCols = Len(ids)
                       /\ \A n \in 1..(oi.numCols - 1) :
                              optIndexColumn(ot, oi, n) = OrdinalOfID(ot, ids[n + 1])
                       /\ IF i \in inverted
                          THEN /\ optIndexColumn(ot, oi, 0) = real + k - 1
                               /\ ot.columns[real + k].Kind = "Virtual"
                               /\ ~ot.columns[real + k].Nullable
                               /\ ot.columns[real + k].Type = ot.columns[source + 1].Type
                               /\ ot.columns[real + k].InvertedSourceOrdinal = source
                          ELSE optIndexColumn(ot, oi, 0) = source

\* a table with inverted indexes on k and on j, in that order, was built:
\* the virtual column of the index on k comes before that of the index on
\* j, and each index has it as its first column
C27_Witness ==
    /\ probe.phase = "newOptTable"
    /\ Len(probe.ot.indexes) = 4
    /\ Len(probe.ot.columns) = Len(RealColumns(probe.ot)) + 2
    /\ probe.ot.columns[Len(probe.ot.columns) - 1].InvertedSourceOrdinal = 3
    /\ probe.ot.columns[Len(probe.ot.columns)].InvertedSourceOrdinal = 2
    /\ optIndexColumn(probe.ot, probe.ot.indexes[2], 0) = Len(probe.ot.columns) - 2
    /\ optIndexColumn(probe.ot, probe.ot.indexes[4], 0) = Len(probe.ot.columns) - 1
    /\ optIndexColumn(probe.ot, probe.ot.indexes[4], 1) = 0

\* the subzones of the zone of a built table that apply to the whole of the
\* index with the given ID
IndexSubzones(ot, id) ==
    {j \in 1..Len(ot.zone.cfg.Subzones) :
        /\ ot.zone.cfg.Subzones[j].IndexID = id
        /\ ot.zone.cfg.Subzones[j].PartitionName = ""}

\* the zone of every index of a built table is placed as C25 says
IndexZonesPlaced(ot) ==
    \A i \in 1..Len(ot.indexes) :
        LET subzones == IndexSubzones(ot, ot.indexes[i].ID)
        IN  IF subzones = {}
            THEN ot.indexes[i].zone = ot.zone
            ELSE /\ ot.indexes[i].zone.tag # ot.zone.tag
                 /\ \E j \in subzones :
                        ot.indexes[i].zone.cfg =
                            [ot.zone.cfg.Subzones[j].Config EXCEPT
                                !.NumReplicas = IF @ = 0 THEN ot.zone.cfg.NumReplicas
                                                ELSE @]

\* C25: for each index of a built table, if the table zone has a subzone
\* for the index ID with an empty partition name the index's zone is that
\* subzone's config inheriting from the table zone (a new object), else it
\* is the table's zone object itself; the subzones of partitions never
\* affect the index's zone.
C25_IndexZonePlacement ==
    /\ probe.phase = "isStale" => IndexZonesPlaced(probe.ot)
    /\ probe.phase = "Equals" => IndexZonesPlaced(probe.a) /\ IndexZonesPlaced(probe.b)

\* a table was built with a zone that has a subzone for index 2 and one for
\* a partition of index 2: the primary index has the table's zone object and
\* index 2 the subzone's config with its own replica count
C25_Witness ==
    /\ probe.phase = "isStale"
    /\ Len(probe.ot.zone.cfg.Subzones) = 2
    /\ probe.ot.indexes[1].zone = probe.ot.zone
    /\ probe.ot.indexes[2].zone.tag # probe.ot.zone.tag
    /\ probe.ot.indexes[2].zone.cfg.NumReplicas = MaxReplicas

\* Equals(a, b) got as far as its index zone loop: two table wrappers at
\* different addresses whose IDs, versions, statistics and type versions agree
ReachedZoneLoop(a, b) ==
    /\ b.kind = "optTable"
    /\ a.addr # b.addr
    /\ Desc(a.desc).ID = Desc(b.desc).ID
    /\ Desc(a.desc).Version = Desc(b.desc).Version
    /\ Len(a.stats) = Len(b.stats)
    /\ \A i \in 1..Len(a.stats) : StatEquals(a.stats[i], b.stats[i])
    /\ UserDefinedTypeColsHaveSameVersion(a.desc, b.desc)

\* C26: for two tables with the same number of indexes, the index zone loop
\* of Equals, which skips the deep comparison when both sides have the zone
\* objects of the last compared pair, gives the verdict of deep-comparing the
\* zones of every index pair.
C26_ShortcutKeepsVerdict ==
    (/\ probe.phase = "Equals"
     /\ ReachedZoneLoop(probe.a, probe.b)
     /\ Len(probe.a.indexes) = Len(probe.b.indexes))
        => (probe.result <=>
                \A i \in 1..Len(probe.a.indexes) :
                    probe.a.indexes[i].zone.cfg = probe.b.indexes[i].zone.cfg)

\* Equals returned true for two wrappers with different zone objects of
\* equal contents, each the zone of both of its indexes, so the second pair
\* was skipped
C26_Witness ==
    /\ probe.phase = "Equals"
    /\ ReachedZoneLoop(probe.a, probe.b)
    /\ probe.result
    /\ probe.a.zone.tag # probe.b.zone.tag
    /\ probe.a.indexes[2].zone.tag = probe.a.indexes[1].zone.tag
    /\ probe.b.indexes[2].zone.tag = probe.b.indexes[1].zone.tag

C28_CacheConsistency ==
    \A p \in DOMAIN dataSources :
        /\ dataSources[p] \in DOMAIN heap
        /\ heap[dataSources[p]].desc = p
        /\ heap[dataSources[p]].addr = dataSources[p]
        /\ heap[dataSources[p]].kind =
               IF (IsTable(p) /\ ~IsVirtualTable(p)) \/ MaterializedView(p)
               THEN "optTable"
               ELSE IF IsView(p) THEN "optView"
               ELSE IF IsSequence(p) THEN "optSequence" ELSE "none"

\* the cache holds wrappers of a table, a materialized view, a view and a
\* sequence at once, the table's rebuilt at least once
C28_Witness ==
    /\ DOMAIN dataSources = {1, 5, 6, 7}
    /\ heap[dataSources[1]].kind = "optTable"
    /\ heap[dataSources[5]].kind = "optTable"
    /\ heap[dataSources[6]].kind = "optView"
    /\ heap[dataSources[7]].kind = "optSequence"
    /\ dataSources[1][2] > 1

\* C29: a lookup of a table that fails (the zone config cannot be read, the
\* builder fails, or the descriptor is of no expected kind) returns the
\* error with no data source, inserts no entry and keeps the entries of the
\* cache, the entry of the descriptor included even when it is stale, as
\* they were.
C29_FailedLookupKeepsCache ==
    (/\ probe.phase = "call"
     /\ ret.op \in {"ResolveDataSource", "ResolveDataSourceByID"}
     /\ ret.err # "")
        => /\ ret.ds = NoAddr
           /\ dataSources = probe.before
           /\ \A p \in DOMAIN dataSources : heap[dataSources[p]] = probe.wrappers[p]

\* the lookup of table t failed on the zone config while the cache held a
\* wrapper of t built from other statistics than the call fetched: the
\* wrapper is still the entry
C29_Witness ==
    /\ probe.phase = "call"
    /\ probe.zoneErr
    /\ ret.err = "zone config"
    /\ ret.ds = NoAddr
    /\ 1 \in DOMAIN dataSources
    /\ Len(ret.tableStats.list) # Len(heap[dataSources[1]].rawStats.list)
    /\ dataSources = probe.before

\* C30: when the cached wrapper of a table was built from a statistics
\* snapshot of which some statistics were dropped for naming missing
\* columns, a lookup of the same descriptor that fetches the same snapshot
\* instance and an equal zone config finds it not stale: it returns the
\* cached object itself and leaves the cache as it was.
C30_DroppedStatsNoRebuild ==
    (/\ probe.phase = "lookup"
     /\ probe.cached
     /\ ret.err = ""
     /\ Len(probe.wrapper.stats) < Len(probe.wrapper.rawStats.list)
     /\ ret.tableStats = probe.wrapper.rawStats
     /\ ret.zone.cfg = probe.wrapper.zone.cfg)
        => /\ ret.ds = probe.wrapper.addr
           /\ 1 \in DOMAIN dataSources
           /\ dataSources[1] = ret.ds
           /\ heap[ret.ds] = probe.wrapper

\* the wrapper of t, built from a snapshot of two statistics of which one
\* was dropped and from the zone object of one system config, was returned
\* again by a lookup that fetched the same snapshot and the equal zone
\* object of another system config
C30_Witness ==
    /\ probe.phase = "lookup"
    /\ probe.cached
    /\ ~probe.noTableStats
    /\ ret.err = ""
    /\ Len(probe.wrapper.rawStats.list) = 2
    /\ Len(probe.wrapper.stats) = 1
    /\ ret.tableStats = probe.wrapper.rawStats
    /\ ret.zone.tag # probe.wrapper.zone.tag
    /\ ret.zone.cfg = probe.wrapper.zone.cfg
    /\ ret.ds = probe.wrapper.addr


====
